---- MODULE Spec2Model ----
(***************************************************************************)
(* A model of the simulador package of Rybas23/ProjetoAA: the two grid     *)
(* environments (FarolEnv, ForagingEnv), the agents (FixedAgent, the       *)
(* Q-learning agents, the genetic agents) and the episode/step loop of     *)
(* MotorDeSimulacao.executa.                                               *)
(*                                                                         *)
(* Units.  Rewards, Q-values and fitness values are Python floats; the     *)
(* model keeps them as integers in hundredths (0.01 -> 1, 2.0 -> 200,      *)
(* 100.0 -> 10000).  Every reward constant of the two environments is a    *)
(* whole number of hundredths, so sums of rewards are exact.  alpha,       *)
(* gamma and epsilon are kept in ten-thousandths.                          *)
(*                                                                         *)
(* Cells are pairs <<x, y>>.  Agent ids are the indices 1..n of the        *)
(* engine's agent list.                                                    *)
(*                                                                         *)
(* Left out: the agents' position_heatmap and the MetricsTracker, which    *)
(* only feed the CSV files written after a run, and rendering.  Genetic    *)
(* agents are modelled for GAAgentForaging; a genome is an abstract name.  *)
(***************************************************************************)
EXTENDS Integers, Sequences, FiniteSets, TLC

\* ------------------------------------------------------------------ bounds
\* side of the square grids explored
GridSize == 3
\* engine step ceiling (params["max_steps"]) of the exploratory configurations
MaxSteps == 2
\* params["episodes"] of the foraging configurations
MaxEpisodes == 2
\* params["episodes"] of the configuration with a learning Q agent
MaxEpisodesQ == 1
\* episodes of the engine run that follows a genetic agent's elite
MaxEpisodesGA == 3
\* step ceiling of the 3x3 foraging scenario (there and back is 8 moves)
ScenarioMaxSteps == 8
\* largest value of the environment step counter in the environment-level runs
MaxEnvStep == 1
\* largest agent step counter handed to FarolEnv.agir in the environment-level runs
MaxAgentSteps == 1

\* ------------------------------------------------------- program constants
\* FarolEnv.__init__ default max_steps (the engine's factory never overrides it)
FarolMaxStepsDefault == 100
\* GAAgentBase.population_size
PopulationSize == 30

VARIABLES
    \* configuration (fixed at construction)
    cfg,
    \* the order in which a set built from the configured resources iterates
    ordem,
    \* environment state
    step, agent_ids, agent_pos, done_agents, resources, carrying, total_delivered,
    \* result of the last environment call: the returned (reward, terminated) pair
    \* and the exception raised, if any
    ret, erro,
    \* engine state (locals of MotorDeSimulacao.executa and its metrics)
    pc, idx, ep, passo_atual, lista_acoes, recompensas_passo,
    recompensa_por_agente, episodio_terminado, metrics,
    \* the exception raised inside the tracker call at the end of the last episode
    tracker_erro,
    \* agent state, one entry per agent id
    ultima_observacao, current_steps, current_reward,
    qtable, estado_anterior, acao_anterior, epsilon, alpha,
    episode_rewards, episode_lengths, ga

envVars == <<step, agent_ids, agent_pos, done_agents, resources, carrying, total_delivered>>
engineVars == <<pc, idx, ep, passo_atual, lista_acoes, recompensas_passo,
                recompensa_por_agente, episodio_terminado, metrics, tracker_erro>>
agentVars == <<ultima_observacao, current_steps, current_reward,
               qtable, estado_anterior, acao_anterior, epsilon, alpha,
               episode_rewards, episode_lengths, ga>>
vars == <<cfg, ordem, envVars, ret, erro, engineVars, agentVars>>

\* ----------------------------------------------------------------- helpers
Acoes == {"UP", "DOWN", "LEFT", "RIGHT"}
\* action strings an agent may hand to agir: the four moves, a string
\* policy_foraging_inteligente also returns ("DROP" is treated like "PICK" by
\* both environments), and one unknown string
AnyAcoes == Acoes \cup {"PICK", "NOOP"}

Abs(n) == IF n < 0 THEN -n ELSE n
Max2(a, b) == IF a > b THEN a ELSE b
Min2(a, b) == IF a < b THEN a ELSE b
Range(f) == {f[k] : k \in DOMAIN f}
Cells(w, h) == (0..(w - 1)) \X (0..(h - 1))
InGrid(c, w, h) == c[1] >= 0 /\ c[1] < w /\ c[2] >= 0 /\ c[2] < h
Manhattan(a, b) == Abs(a[1] - b[1]) + Abs(a[2] - b[2])
SetMin(S) == CHOOSE m \in S : \A k \in S : m <= k
SetMax(S) == CHOOSE m \in S : \A k \in S : m >= k
Ids == 1..Len(agent_ids)
NoSpawns == [a \in {} |-> <<0, 0>>]
\* the record of the last environment call: the operation, its arguments (agent
\* id and action of agir, spawn map of reset) and what agir returned; in the
\* agent-level runs, of the last call on an agent (episodio is the argument of
\* an agent's reset)
NoRet ==
    [op |-> "none", id |-> 0, acao |-> "", spawns |-> NoSpawns, r |-> 0, t |-> FALSE,
     obs |-> <<>>, episodio |-> -1]
RetAgir(id, acao, r, t) == [NoRet EXCEPT !.op = "agir", !.id = id, !.acao = acao, !.r = r, !.t = t]
RetReset(spawns) == [NoRet EXCEPT !.op = "reset", !.spawns = spawns]
\* the record of observacaoPara(agente): the agent and the dict returned
RetObservacao(id, obs) == [NoRet EXCEPT !.op = "observacaoPara", !.id = id, !.obs = obs]

\* ================================================================ FarolEnv
\* FarolEnv.registar_agentes / ForagingEnv.registar_agentes
RegistarAgentes(n) == [i \in 1..n |-> i]

\* FarolSpawnValido without the wall test
FarolSpawnValido_SemParedes(c) ==
    /\ 0 <= c[1] /\ c[1] < cfg.width
    /\ 0 <= c[2] /\ c[2] < cfg.width
    /\ c # cfg.farol

\* the spawn test of FarolEnv.reset
FarolSpawnValido(c) ==
    /\ 0 <= c[1] /\ c[1] < cfg.width
    /\ 0 <= c[2] /\ c[2] < cfg.width
    /\ c # cfg.farol
    /\ c \notin cfg.walls

\* posicoes_disponiveis of FarolEnv.reset
\* FarolDisponiveis without the exclusion of the beacon cell
FarolDisponiveis_ComFarol ==
    {c \in Cells(cfg.width, cfg.width) : c \notin cfg.walls}

FarolDisponiveis ==
    {c \in Cells(cfg.width, cfg.width) : c # cfg.farol /\ c \notin cfg.walls}

\* the agents FarolEnv.reset places on their explicit spawn
FarolExplicitos(spawns) ==
    {a \in Range(agent_ids) : a \in DOMAIN spawns /\ FarolSpawnValido(spawns[a])}

\* The placements FarolEnv.reset can produce: the valid explicit spawns, then
\* one distinct cell of the shuffled free list for each remaining agent, in
\* agent order.  When the free cells run out the call raises RuntimeError with
\* the agents placed so far (ok = FALSE).
FarolResetOutcomes(spawns) ==
    LET expl   == FarolExplicitos(spawns)
        usados == {spawns[a] : a \in expl}
        livres == FarolDisponiveis \ usados
        resto  == Range(agent_ids) \ expl
        k      == Min2(Cardinality(resto), Cardinality(livres))
        \* the first k remaining agents, in agent order
        postos == {a \in resto : Cardinality({b \in resto : b < a}) < k}
    IN  {[pos |-> [a \in expl \cup postos |->
                      IF a \in expl THEN spawns[a] ELSE f[a]],
          ok  |-> Cardinality(resto) <= Cardinality(livres)] :
            f \in {g \in [postos -> livres] :
                      \A a, b \in postos : a # b => g[a] # g[b]}}

\* FarolEnv._dir
FarolDir(pos) ==
    IF cfg.farol[1] > pos[1] THEN "E"
    ELSE IF cfg.farol[1] < pos[1] THEN "O"
    ELSE IF cfg.farol[2] > pos[2] THEN "S"
    ELSE IF cfg.farol[2] < pos[2] THEN "N"
    ELSE "NONE"

\* FarolEnv._dist_manhattan
FarolDist(pos) == Abs(cfg.farol[1] - pos[1]) + Abs(cfg.farol[2] - pos[2])

\* FarolEnv._efeito_celula: the cell type (the wall test comes first)
FarolTipoCelula(c) ==
    IF c \in cfg.walls THEN "parede"
    ELSE IF c = cfg.farol THEN "farol"
    ELSE "vazio"

\* the terminal reward of FarolEnv.agir, in hundredths:
\* 100 + 50 * max(0, 1 - steps_taken / max_steps), steps_taken = _current_steps + 1
FarolRecompensaFinal(agSteps) ==
    LET steps_taken == agSteps + 1
    IN  10000 + Max2(0, (5000 * (cfg.env_max_steps - steps_taken)) \div cfg.env_max_steps)

\* FarolDestino without the grid-border tests
FarolDestino_SemLimites(acao, p) ==
    IF acao = "UP" THEN <<p[1], p[2] - 1>>
    ELSE IF acao = "DOWN" THEN <<p[1], p[2] + 1>>
    ELSE IF acao = "LEFT" THEN <<p[1] - 1, p[2]>>
    ELSE IF acao = "RIGHT" THEN <<p[1] + 1, p[2]>>
    ELSE <<-1, -1>>

\* the destination FarolEnv.agir proposes, or <<-1, -1>> when the action is no
\* move or would leave the grid
FarolDestino(acao, p) ==
    IF acao = "UP" /\ p[2] > 0 THEN <<p[1], p[2] - 1>>
    ELSE IF acao = "DOWN" /\ p[2] < cfg.width - 1 THEN <<p[1], p[2] + 1>>
    ELSE IF acao = "LEFT" /\ p[1] > 0 THEN <<p[1] - 1, p[2]>>
    ELSE IF acao = "RIGHT" /\ p[1] < cfg.width - 1 THEN <<p[1] + 1, p[2]>>
    ELSE <<-1, -1>>

\* FarolAgir without the early return for an agent that already reached the beacon
FarolAgir_SemGuardaDone(acao, id, agSteps) ==
    LET p    == agent_pos[id]
        novo == FarolDestino(acao, p)
    IN  IF novo = <<-1, -1>>
        THEN [pos |-> agent_pos, done |-> done_agents, r |-> -1, t |-> FALSE]
        ELSE IF FarolTipoCelula(novo) = "parede"
        THEN [pos |-> agent_pos, done |-> done_agents, r |-> 0, t |-> FALSE]
        ELSE IF FarolTipoCelula(novo) = "farol"
        THEN [pos |-> [agent_pos EXCEPT ![id] = novo],
              done |-> done_agents \cup {id},
              r |-> FarolRecompensaFinal(agSteps), t |-> TRUE]
        ELSE [pos |-> [agent_pos EXCEPT ![id] = novo], done |-> done_agents,
              r |-> IF FarolDist(novo) < FarolDist(p) THEN 1 ELSE -1,
              t |-> FALSE]

\* FarolEnv.agir(acao, agente): the new positions and done set and the returned
\* (reward, terminated); agSteps is agente._current_steps
FarolAgir(acao, id, agSteps) ==
    IF id \in done_agents
    THEN [pos |-> agent_pos, done |-> done_agents, r |-> 0, t |-> TRUE]
    ELSE
      LET p    == agent_pos[id]
          novo == FarolDestino(acao, p)
      IN  IF novo = <<-1, -1>>
          THEN [pos |-> agent_pos, done |-> done_agents, r |-> -1, t |-> FALSE]
          ELSE IF FarolTipoCelula(novo) = "parede"
          THEN [pos |-> [agent_pos EXCEPT ![id] = p], done |-> done_agents,
                r |-> 0, t |-> FALSE]
          ELSE IF FarolTipoCelula(novo) = "farol"
          THEN [pos |-> [agent_pos EXCEPT ![id] = novo],
                done |-> done_agents \cup {id},
                r |-> FarolRecompensaFinal(agSteps), t |-> TRUE]
          ELSE [pos |-> [agent_pos EXCEPT ![id] = novo], done |-> done_agents,
                r |-> IF FarolDist(novo) < FarolDist(p) THEN 1 ELSE -1,
                t |-> FALSE]

\* FarolEnv.is_episode_done
FarolIsEpisodeDone == Cardinality(done_agents) = Len(agent_ids)

\* ============================================================= ForagingEnv
\* ForagingEnv.reset: every agent on its spawn as given (no test), else on the nest
ForagingResetPos(spawns) ==
    [a \in DOMAIN agent_pos \cup Range(agent_ids) |->
        IF a \in Range(agent_ids)
        THEN (IF a \in DOMAIN spawns THEN spawns[a] ELSE cfg.ninho)
        ELSE agent_pos[a]]

\* ForagingEnv._tipo_celula, on the current resource set (the nest test first)
ForagingTipoCelula(c, res) ==
    IF c = cfg.ninho THEN "ninho"
    ELSE IF c \in cfg.walls THEN "parede"
    ELSE IF c \in res THEN "recurso"
    ELSE "vazio"

\* the cell a move of ForagingEnv.agir leads to (the same cell at the border)
ForagingDestino(acao, p) ==
    IF acao = "UP" /\ p[2] > 0 THEN <<p[1], p[2] - 1>>
    ELSE IF acao = "DOWN" /\ p[2] < cfg.height - 1 THEN <<p[1], p[2] + 1>>
    ELSE IF acao = "LEFT" /\ p[1] > 0 THEN <<p[1] - 1, p[2]>>
    ELSE IF acao = "RIGHT" /\ p[1] < cfg.width - 1 THEN <<p[1] + 1, p[2]>>
    ELSE p

\* the shaping term of ForagingEnv.agir, in hundredths
ForagingShaping(antes, depois) ==
    IF depois < antes THEN 5 ELSE IF depois > antes THEN -2 ELSE 0

ForagingDistRecurso(p, rs) == SetMin({Manhattan(p, r) : r \in rs})

\* ForagingAgir with a pick-up that leaves the resource on its cell
ForagingAgir_SemRetirar(acao, id) ==
    LET same == [pos |-> agent_pos, res |-> resources, car |-> carrying,
                 del |-> total_delivered, r |-> 0, t |-> FALSE]
        pos_old == agent_pos[id]
        carrying_before == carrying[id]
    IN  IF acao \notin Acoes THEN same
        ELSE
          LET novo == ForagingDestino(acao, pos_old)
          IN  IF novo \in cfg.walls THEN [same EXCEPT !.r = -1]
              ELSE
                LET tipo == ForagingTipoCelula(novo, resources)
                    pick == tipo = "recurso" /\ carrying[id] = 0
                    drop == ~pick /\ tipo = "ninho" /\ carrying[id] = 1
                    res1 == resources
                    car1 == IF pick THEN [carrying EXCEPT ![id] = 1]
                            ELSE IF drop THEN [carrying EXCEPT ![id] = 0]
                            ELSE carrying
                    del1 == IF drop THEN total_delivered + 1 ELSE total_delivered
                    base == -1 + (IF pick THEN 200 ELSE 0) + (IF drop THEN 500 ELSE 0)
                    calc == IF tipo = "recurso" /\ car1[id] = 1
                            THEN res1 \cup {novo} ELSE res1
                    shaping ==
                        IF carrying_before = 0
                        THEN (IF calc # {}
                              THEN ForagingShaping(ForagingDistRecurso(pos_old, calc),
                                                   ForagingDistRecurso(novo, calc))
                              ELSE 0)
                        ELSE ForagingShaping(Manhattan(pos_old, cfg.ninho),
                                             Manhattan(novo, cfg.ninho))
                IN  [pos |-> [agent_pos EXCEPT ![id] = novo], res |-> res1,
                     car |-> car1, del |-> del1, r |-> base + shaping, t |-> FALSE]

\* ForagingEnv.agir(acao, agente): the new positions, resources, carrying flags
\* and delivered count, and the returned (reward, terminated)
ForagingAgir(acao, id) ==
    LET same == [pos |-> agent_pos, res |-> resources, car |-> carrying,
                 del |-> total_delivered, r |-> 0, t |-> FALSE]
        pos_old == agent_pos[id]
        carrying_before == carrying[id]
    IN  IF acao \notin Acoes THEN same
        ELSE
          LET novo == ForagingDestino(acao, pos_old)
          IN  IF novo \in cfg.walls THEN [same EXCEPT !.r = -1]
              ELSE
                LET tipo == ForagingTipoCelula(novo, resources)
                    pick == tipo = "recurso" /\ carrying[id] = 0
                    drop == ~pick /\ tipo = "ninho" /\ carrying[id] = 1
                    res1 == IF pick THEN resources \ {novo} ELSE resources
                    car1 == IF pick THEN [carrying EXCEPT ![id] = 1]
                            ELSE IF drop THEN [carrying EXCEPT ![id] = 0]
                            ELSE carrying
                    del1 == IF drop THEN total_delivered + 1 ELSE total_delivered
                    base == -1 + (IF pick THEN 200 ELSE 0) + (IF drop THEN 500 ELSE 0)
                    calc == IF tipo = "recurso" /\ car1[id] = 1
                            THEN res1 \cup {novo} ELSE res1
                    shaping ==
                        IF carrying_before = 0
                        THEN (IF calc # {}
                              THEN ForagingShaping(ForagingDistRecurso(pos_old, calc),
                                                   ForagingDistRecurso(novo, calc))
                              ELSE 0)
                        ELSE ForagingShaping(Manhattan(pos_old, cfg.ninho),
                                             Manhattan(novo, cfg.ninho))
                IN  [pos |-> [agent_pos EXCEPT ![id] = novo], res |-> res1,
                     car |-> car1, del |-> del1, r |-> base + shaping, t |-> FALSE]

\* ForagingIsEpisodeDone waiting for the carried resources to be delivered
ForagingIsEpisodeDone_AposEntrega ==
    Cardinality(resources) = 0 /\ \A a \in DOMAIN carrying : carrying[a] = 0

\* ForagingEnv.is_episode_done
ForagingIsEpisodeDone == Cardinality(resources) = 0

\* the engine's self.ambiente.is_episode_done()
IsEpisodeDone ==
    IF cfg.problem = "Farol" THEN FarolIsEpisodeDone ELSE ForagingIsEpisodeDone

\* ============================================================ observations
\* An observation is the dict observacaoPara builds.  The model keeps one record
\* shape: a key the agent's sensors do not give holds an "absent" marker, and
\* none = TRUE stands for ultima_observacao = None.
VisKeys == {"L", "R", "U", "D", "C"}
AgTags == <<"AG_1", "AG_2", "AG_3">>
VisAbsent == [k \in VisKeys |-> IF cfg.problem = "Farol" THEN "ABSENT" ELSE -9]
NoneObs ==
    [none |-> TRUE, pos |-> <<0, 0>>, direcao_farol |-> "ABSENT", visao |-> VisAbsent,
     carrying |-> -9, nest |-> <<-9, -9>>, direcao_recurso |-> "ABSENT"]

Vizinho(p, k) ==
    IF k = "L" THEN <<p[1] - 1, p[2]>>
    ELSE IF k = "R" THEN <<p[1] + 1, p[2]>>
    ELSE IF k = "U" THEN <<p[1], p[2] - 1>>
    ELSE IF k = "D" THEN <<p[1], p[2] + 1>>
    ELSE p

\* the sensors MotorDeSimulacao.cria installs, by agent type (a FixedAgent's by
\* problem); a QAgentBase, which cria does not build, has none
Sensores(tipo) ==
    IF tipo = "QAgentBase" THEN {}
    ELSE IF tipo = "QAgentFarol" \/ tipo = "GAAgentFarol" THEN {"visao", "farol"}
    ELSE IF tipo = "QAgentForaging" \/ tipo = "GAAgentForaging"
    THEN {"visao", "ninho", "carregando", "recurso_mais_proximo"}
    ELSE IF cfg.problem = "Farol" THEN {"farol"}
    ELSE {"visao", "ninho", "carregando"}

\* the first agent, in the insertion order of the agent_pos dict (explicit
\* spawns first, then the others, each in agent order), standing on cell c
FarolPrimeiroAgente(c) ==
    LET aqui == {a \in DOMAIN agent_pos : agent_pos[a] = c}
        expl == aqui \cap FarolExplicitos(cfg.spawns)
    IN  IF expl # {} THEN SetMin(expl) ELSE SetMin(aqui)

\* FarolEnv._visao
FarolVisao(p) ==
    [k \in VisKeys |->
        LET c == Vizinho(p, k)
        IN  IF InGrid(c, cfg.width, cfg.width)
            THEN (IF c \in cfg.walls THEN "PAREDE"
                  ELSE IF c = cfg.farol THEN "FAROL"
                  ELSE IF \E a \in DOMAIN agent_pos : agent_pos[a] = c
                  THEN AgTags[FarolPrimeiroAgente(c)]
                  ELSE "VAZIO")
            ELSE "PAREDE"]

\* FarolEnv.observacaoPara
FarolObservacaoPara(id, sens) ==
    [NoneObs EXCEPT
        !.none = FALSE,
        !.pos = agent_pos[id],
        !.direcao_farol = IF "farol" \in sens THEN FarolDir(agent_pos[id]) ELSE "ABSENT",
        !.visao = IF "visao" \in sens THEN FarolVisao(agent_pos[id]) ELSE VisAbsent]

\* the vision dict of ForagingEnv.observacaoPara
ForagingVisao(p) ==
    [k \in VisKeys |->
        LET c == Vizinho(p, k)
        IN  IF k = "C" THEN (IF p \in resources THEN 1 ELSE 0)
            ELSE IF InGrid(c, cfg.width, cfg.height)
            THEN (IF c \in cfg.walls THEN -1 ELSE IF c \in resources THEN 1 ELSE 0)
            ELSE -1]

\* the orders in which a set of the cells S can iterate
Permutacoes(S) == {o \in [1..Cardinality(S) -> S] : Range(o) = S}

\* the nearest-resource direction of ForagingEnv.observacaoPara, as a set of
\* one: among equally near resources Python's min keeps the first in the
\* iteration order of self.resources.  The code does not fix that order, but
\* the set is rebuilt from the same initial set at every reset and only loses
\* elements afterwards, so the resources left always iterate in the order
\* ordem gives them.
\* ForagingDirecoesRecurso with the tie broken by the parity of the step counter
ForagingDirecoesRecurso_PorPasso(p) ==
    IF resources = {} THEN {"NONE"}
    ELSE LET perto == {i \in DOMAIN ordem :
                         /\ ordem[i] \in resources
                         /\ \A o \in resources :
                               Manhattan(p, ordem[i]) <= Manhattan(p, o)}
             r == ordem[IF step % 2 = 0 THEN SetMin(perto) ELSE SetMax(perto)]
         IN  { IF r[1] > p[1] THEN "E"
               ELSE IF r[1] < p[1] THEN "O"
               ELSE IF r[2] < p[2] THEN "N"
               ELSE IF r[2] > p[2] THEN "S"
               ELSE "NONE" }

ForagingDirecoesRecurso(p) ==
    IF resources = {} THEN {"NONE"}
    ELSE LET perto == {i \in DOMAIN ordem :
                         /\ ordem[i] \in resources
                         /\ \A o \in resources :
                               Manhattan(p, ordem[i]) <= Manhattan(p, o)}
             r == ordem[SetMin(perto)]
         IN  { IF r[1] > p[1] THEN "E"
               ELSE IF r[1] < p[1] THEN "O"
               ELSE IF r[2] < p[2] THEN "N"
               ELSE IF r[2] > p[2] THEN "S"
               ELSE "NONE" }

\* ForagingEnv.observacaoPara: the observations it can return
ForagingObservacaoPara(id, sens) ==
    { [NoneObs EXCEPT
        !.none = FALSE,
        !.pos = agent_pos[id],
        !.visao = IF "visao" \in sens THEN ForagingVisao(agent_pos[id]) ELSE VisAbsent,
        !.carrying = IF "carregando" \in sens THEN carrying[id] ELSE -9,
        !.nest = IF "ninho" \in sens THEN cfg.ninho ELSE <<-9, -9>>,
        !.direcao_recurso = d] :
      d \in IF "recurso_mais_proximo" \in sens
            THEN ForagingDirecoesRecurso(agent_pos[id]) ELSE {"ABSENT"} }

\* self.ambiente.observacaoPara(ag) for the engine's agent a: the observations
\* the call can return in the current environment state
ObservacaoPara(a) ==
    IF cfg.problem = "Farol"
    THEN {FarolObservacaoPara(a, Sensores(cfg.agentes[a].tipo))}
    ELSE ForagingObservacaoPara(a, Sensores(cfg.agentes[a].tipo))

\* ================================================================= policies
MapaAcao(d) ==
    IF d = "N" THEN "UP" ELSE IF d = "S" THEN "DOWN"
    ELSE IF d = "E" THEN "RIGHT" ELSE IF d = "O" THEN "LEFT" ELSE "NONE"

\* policy_farol_inteligente replaced by a random choice
PolicyFarolInteligente_Aleatoria(obs) == Acoes

\* policy_farol_inteligente: the actions it can return for an observation
PolicyFarolInteligente(obs) ==
    IF obs.direcao_farol \in {"N", "S", "E", "O"}
    THEN {MapaAcao(obs.direcao_farol)}
    ELSE Acoes

\* policy_foraging_inteligente: the actions it can return for an observation
PolicyForagingInteligente(obs) ==
    IF obs.carrying = 1 /\ obs.pos = obs.nest THEN {"DROP"}
    ELSE IF obs.carrying = 1 /\ obs.nest[1] > obs.pos[1] THEN {"RIGHT"}
    ELSE IF obs.carrying = 1 /\ obs.nest[1] < obs.pos[1] THEN {"LEFT"}
    ELSE IF obs.carrying = 1 /\ obs.nest[2] > obs.pos[2] THEN {"DOWN"}
    ELSE IF obs.carrying = 1 /\ obs.nest[2] < obs.pos[2] THEN {"UP"}
    ELSE IF obs.visao["C"] > 0 THEN {"PICK"}
    ELSE IF obs.visao["L"] > 0 THEN {"LEFT"}
    ELSE IF obs.visao["R"] > 0 THEN {"RIGHT"}
    ELSE IF obs.visao["U"] > 0 THEN {"UP"}
    ELSE IF obs.visao["D"] > 0 THEN {"DOWN"}
    ELSE Acoes

\* self.politica(self.ultima_observacao) of a FixedAgent
PolicyActions(policy, obs) ==
    IF policy = "farol_inteligente" THEN PolicyFarolInteligente(obs)
    ELSE IF policy = "foraging_inteligente" THEN PolicyForagingInteligente(obs)
    ELSE Acoes

\* ========================================================= Q-learning agents
\* QAgentBase.__init__ defaults, in ten-thousandths
AlphaInicial == 3000
Gamma == 9900
EpsilonInicial == 9000

IsQ(tipo) == tipo \in {"QAgentBase", "QAgentFarol", "QAgentForaging"}
IsGA(tipo) == tipo = "GAAgentFarol" \/ tipo = "GAAgentForaging"
NoEstado == <<>>

\* QAgentFarol._to_state: (direction, wall flags L R U D, 3x3 zone)
FarolToState(obs) ==
    LET direcao == IF obs.direcao_farol = "ABSENT" THEN "NONE" ELSE obs.direcao_farol
        flag(k) == IF obs.visao[k] = "PAREDE" THEN 1 ELSE 0
        zona(v) == IF v < 3 THEN 0 ELSE IF v < 6 THEN 1 ELSE 2
    IN  <<direcao, <<flag("L"), flag("R"), flag("U"), flag("D")>>,
          <<zona(obs.pos[1]), zona(obs.pos[2])>> >>

\* QAgentForaging._to_state: (carrying, goal direction, on goal, wall toward goal)
ForagingToState(obs) ==
    LET car == IF obs.carrying = -9 THEN 0 ELSE obs.carrying
        nest == IF obs.nest = <<-9, -9>> THEN <<0, 0>> ELSE obs.nest
        dir == IF car = 0
               THEN (IF obs.direcao_recurso = "ABSENT" THEN "NONE" ELSE obs.direcao_recurso)
               ELSE IF nest[1] > obs.pos[1] THEN "E"
               ELSE IF nest[1] < obs.pos[1] THEN "O"
               ELSE IF nest[2] < obs.pos[2] THEN "N"
               ELSE IF nest[2] > obs.pos[2] THEN "S"
               ELSE "NONE"
        no_objetivo == IF car = 0 THEN obs.visao["C"] = 1 ELSE obs.pos = nest
        tecla == IF dir = "N" THEN "U" ELSE IF dir = "S" THEN "D"
                 ELSE IF dir = "E" THEN "R" ELSE IF dir = "O" THEN "L" ELSE "C"
        parede == dir # "NONE" /\ obs.visao[tecla] = -1
    IN  <<car, dir, no_objetivo, parede>>

\* QAgentBase._to_state on a dict: the tuple of the (key, value) pairs in key
\* order, the visao dict as the tuple of its own pairs in key order
BaseToState(obs) ==
    (IF obs.carrying = -9 THEN <<>> ELSE << <<"carrying", obs.carrying>> >>)
    \o (IF obs.direcao_farol = "ABSENT" THEN <<>>
        ELSE << <<"direcao_farol", obs.direcao_farol>> >>)
    \o (IF obs.direcao_recurso = "ABSENT" THEN <<>>
        ELSE << <<"direcao_recurso", obs.direcao_recurso>> >>)
    \o (IF obs.nest = <<-9, -9>> THEN <<>> ELSE << <<"nest", obs.nest>> >>)
    \o << <<"pos", obs.pos>> >>
    \o (IF obs.visao = VisAbsent THEN <<>>
        ELSE << <<"visao", << <<"C", obs.visao["C"]>>, <<"D", obs.visao["D"]>>,
                              <<"L", obs.visao["L"]>>, <<"R", obs.visao["R"]>>,
                              <<"U", obs.visao["U"]>> >> >> >>)

\* self._to_state(observacao) by agent type
ToState(tipo, obs) ==
    IF tipo = "QAgentFarol" THEN FarolToState(obs)
    ELSE IF tipo = "QAgentBase" THEN BaseToState(obs)
    ELSE ForagingToState(obs)

\* QAgentForaging._inicializar_estado
ForagingInicializarEstado(estado) ==
    [acao \in Acoes |->
        IF estado[3] THEN 50
        ELSE IF MapaAcao(estado[2]) = acao THEN (IF estado[4] THEN 0 ELSE 200)
        ELSE 0]

\* QAgentFarol._inicializar_estado draws each value from a range with
\* random.uniform: (1.5, 2.5) toward the beacon, (-0.5, 0.0) toward the beacon
\* into a wall, (0.0, 0.5) elsewhere, 0.5 on the beacon.  The model draws the
\* row at the low end or at the high end of the ranges.
FarolInicializarEstado(estado) ==
    { [acao \in Acoes |->
          IF estado[1] = "NONE" THEN 50
          ELSE IF MapaAcao(estado[1]) = acao
          THEN (LET i == IF acao = "LEFT" THEN 1 ELSE IF acao = "RIGHT" THEN 2
                         ELSE IF acao = "UP" THEN 3 ELSE 4
                IN  IF estado[2][i] = 1 THEN -50 + 50 * hi ELSE 150 + 100 * hi)
          ELSE 50 * hi] : hi \in {0, 1} }

\* the rows self._inicializar_estado(estado) can return, by agent type
InicializarEstado(tipo, estado) ==
    IF tipo = "QAgentFarol" THEN FarolInicializarEstado(estado)
    ELSE IF tipo = "QAgentBase" THEN {[acao \in Acoes |-> 0]}
    ELSE {ForagingInicializarEstado(estado)}

RowMax(row) == SetMax(Range(row))
Melhores(row) == {a \in DOMAIN row : row[a] = RowMax(row)}

\* the Q-learning update of avaliacaoEstadoAtual on hundredths, alpha and gamma
\* in ten-thousandths (each product rounded down to a whole unit)
QNovo(q_antigo, recompensa, q_max_prox, al) ==
    q_antigo + (al * (recompensa + (Gamma * q_max_prox) \div 10000 - q_antigo)) \div 10000

\* epsilon_min, epsilon_decay, alpha_min, alpha_decay of QAgentFarol,
\* QAgentBase and QAgentForaging
QParams(tipo) ==
    IF tipo = "QAgentFarol"
    THEN [epsilon_min |-> 1000, epsilon_decay |-> 9980, alpha_min |-> 500, alpha_decay |-> 9980]
    ELSE IF tipo = "QAgentBase"
    THEN [epsilon_min |-> 100, epsilon_decay |-> 9950, alpha_min |-> 100, alpha_decay |-> 9950]
    ELSE [epsilon_min |-> 100, epsilon_decay |-> 9970, alpha_min |-> 100, alpha_decay |-> 9900]

\* the decay step of QAgentBase.reset
Decai(v, decay, minimo) == Max2(minimo, (v * decay) \div 10000)

\* the Q-table after age() has looked the state up: a state that is not a key
\* gets a row from _inicializar_estado, whatever the agent's mode
QTabelasAposAge(tipo, qt, estado) ==
    IF estado \in DOMAIN qt THEN {qt}
    ELSE {qt @@ (estado :> row) : row \in InicializarEstado(tipo, estado)}

\* QEscolhas exploring in every mode
QEscolhas_SempreExplora(modo, eps, row) ==
    IF eps > 0 THEN Acoes ELSE Melhores(row)

\* the actions QAgentBase.age can choose: any action when it explores (learn
\* mode, random() < epsilon), one of the best of the row otherwise
QEscolhas(modo, eps, row) ==
    IF modo = "learn" /\ eps > 0 THEN Acoes ELSE Melhores(row)

\* QAvaliacao with the maximum taken over the row of the state left
QAvaliacao_MaxDoEstadoPassado(a, recompensa) ==
    IF cfg.agentes[a].modo # "learn" THEN qtable[a]
    ELSE IF estado_anterior[a] = NoEstado \/ acao_anterior[a] = "" THEN qtable[a]
    ELSE LET estado_atual == ToState(cfg.agentes[a].tipo, ultima_observacao[a])
             qt == IF estado_atual \in DOMAIN qtable[a] THEN qtable[a]
                   ELSE qtable[a] @@ (estado_atual :> [ac \in Acoes |-> 0])
             q_antigo == qt[estado_anterior[a]][acao_anterior[a]]
             q_max_prox == RowMax(qt[estado_anterior[a]])
         IN  [qt EXCEPT ![estado_anterior[a]][acao_anterior[a]] =
                            QNovo(q_antigo, recompensa, q_max_prox, alpha[a])]

\* the Q-table after avaliacaoEstadoAtual(recompensa) of agent a
QAvaliacao(a, recompensa) ==
    IF cfg.agentes[a].modo # "learn" THEN qtable[a]
    ELSE IF estado_anterior[a] = NoEstado \/ acao_anterior[a] = "" THEN qtable[a]
    ELSE LET estado_atual == ToState(cfg.agentes[a].tipo, ultima_observacao[a])
             qt == IF estado_atual \in DOMAIN qtable[a] THEN qtable[a]
                   ELSE qtable[a] @@ (estado_atual :> [ac \in Acoes |-> 0])
             q_antigo == qt[estado_anterior[a]][acao_anterior[a]]
             q_max_prox == RowMax(qt[estado_atual])
         IN  [qt EXCEPT ![estado_anterior[a]][acao_anterior[a]] =
                            QNovo(q_antigo, recompensa, q_max_prox, alpha[a])]

\* epsilon and alpha after QAgentBase.reset(episodio)
QEpsilonReset(a, episodio) ==
    LET par == QParams(cfg.agentes[a].tipo)
        e1 == Decai(epsilon[a], par.epsilon_decay, par.epsilon_min)
    IN  IF cfg.agentes[a].modo # "learn" THEN epsilon[a]
        ELSE IF episodio > 100 THEN Decai(e1, 8000, par.epsilon_min) ELSE e1

QAlphaReset(a, episodio) ==
    LET par == QParams(cfg.agentes[a].tipo)
        a1 == Decai(alpha[a], par.alpha_decay, par.alpha_min)
    IN  IF cfg.agentes[a].modo # "learn" THEN alpha[a]
        ELSE IF episodio > 100 THEN Decai(a1, 8500, par.alpha_min) ELSE a1

\* ========================================================== genetic agents
\* best_fitness starts at -math.inf: a value below every fitness
NegInf == -1000000000
\* a genome is a vector of float weights; the model names genomes by integers
\* (0 the initial one) and gives each new vector an unused name.  The field
\* fitness keeps the local of reset() of that name, as last stored in the
\* population, and the field tau the local of age() of that name, in
\* ten-thousandths, as last computed (0 before the first softmax draw).
GAInicial ==
    [genome |-> 0, best_genome |-> 0, best_fitness |-> NegInf, population |-> <<>>,
     episode_reward |-> 0, episode_heatmap |-> [c \in {} |-> 0],
     recent_positions |-> <<>>, stuck_counter |-> 0, proximo_genoma |-> 1,
     fitness |-> NegInf, tau |-> 0]

Ultimos(seq, n) ==
    IF Len(seq) <= n THEN seq ELSE SubSeq(seq, Len(seq) - n + 1, Len(seq))

\* the position bookkeeping of GAAgentBase.age for observed position pos:
\* episode heatmap, the window of 8 recent positions and the stuck counter
GARegistaPos(g, pos) ==
    LET hm == IF pos \in DOMAIN g.episode_heatmap
              THEN [g.episode_heatmap EXCEPT ![pos] = @ + 1]
              ELSE g.episode_heatmap @@ (pos :> 1)
        rp == Ultimos(Append(g.recent_positions, pos), 8)
        sc == IF Len(rp) < 4 THEN g.stuck_counter
              ELSE IF Cardinality(Range(Ultimos(rp, 4))) <= 2 THEN g.stuck_counter + 2
              ELSE IF Len(rp) >= 8 /\ Cardinality(Range(rp)) <= 3 THEN g.stuck_counter + 1
              ELSE Max2(0, g.stuck_counter - 1)
    IN  [g EXCEPT !.episode_heatmap = hm, !.recent_positions = rp, !.stuck_counter = sc]

\* the softmax temperature of GAAgentBase.age for current_episode, in
\* ten-thousandths
GATemperatura(current_episode) ==
    IF current_episode < 100 THEN 10000 - 80 * current_episode
    ELSE IF current_episode < 200 THEN 2000 - 15 * (current_episode - 100)
    ELSE 500

\* GAAposAge with an anti-loop branch that leaves the stuck counter alone
GAAposAge_SemZerar(g, obs, modo, current_episode) ==
    IF obs.none THEN g
    ELSE LET g1 == GARegistaPos(g, obs.pos)
         IN  IF Len(g1.recent_positions) >= 4 /\ g1.stuck_counter >= 2 /\ modo = "learn"
             THEN g1
             ELSE IF modo = "learn"
             THEN [g1 EXCEPT !.tau = GATemperatura(current_episode)]
             ELSE g1

\* the GA record after age(): the anti-loop branch (4 or more recent positions,
\* stuck counter at 2 or more, learn mode) clears the stuck counter; the
\* softmax branch of learn mode computes tau from current_episode, which age()
\* reads as len(self.episode_rewards)
GAAposAge(g, obs, modo, current_episode) ==
    IF obs.none THEN g
    ELSE LET g1 == GARegistaPos(g, obs.pos)
         IN  IF Len(g1.recent_positions) >= 4 /\ g1.stuck_counter >= 2 /\ modo = "learn"
             THEN [g1 EXCEPT !.stuck_counter = 0]
             ELSE IF modo = "learn"
             THEN [g1 EXCEPT !.tau = GATemperatura(current_episode)]
             ELSE g1

\* the actions GAAgentBase.age can return: random.choice without observation or
\* in the anti-loop branch, a softmax sample in learn mode (every action has a
\* positive probability), the genome's first best-scored action otherwise.
\* GAAgentFarol._to_features is not modelled: its greedy choice is any action.

\* lista_acoes of a genetic agent
ListaAcoes == <<"UP", "DOWN", "LEFT", "RIGHT">>

\* norm_res of GAAgentForaging._to_features, in tenths: a wall or a missing key
\* counts 0, a resource count is clipped to 5 and divided by 5
NormRes(v) == IF v < 0 THEN 0 ELSE Min2(v, 5) * 2

\* GAAgentForaging._to_features, in tenths: position / 10, the five vision
\* cells, the carrying flag and the vector to the nest / 10; a key the
\* observation does not hold reads as its default
ForagingToFeatures(obs) ==
    LET car == IF obs.carrying < 0 THEN 0 ELSE obs.carrying
        nest == IF obs.nest[1] < 0 THEN <<0, 0>> ELSE obs.nest
    IN  <<obs.pos[1], obs.pos[2],
          NormRes(obs.visao["L"]), NormRes(obs.visao["R"]), NormRes(obs.visao["U"]),
          NormRes(obs.visao["D"]), NormRes(obs.visao["C"]),
          car * 10, nest[1] - obs.pos[1], nest[2] - obs.pos[2]>>

\* self.genome[ai * feature_dim + f] of the genome named gid, in tenths, for
\* action index ai and feature index f counted from 0 as the code counts
\* them.  Genome 0 is a genome _init_intelligent_genome can draw (its other
\* weights drawn as 0), genome 1 runs to the right on a resource seen there,
\* on a carried resource and on its own x, genome 2 scores UP below the others
\* on a resource seen to the right; every other genome scores all actions alike.
GenomaPesos(gid, ai, f) ==
    LET acao == ListaAcoes[ai + 1]
    IN  IF gid = 0
        THEN IF f = 2 THEN (IF acao = "LEFT" THEN 45 ELSE IF acao = "RIGHT" THEN -25 ELSE 0)
             ELSE IF f = 3 THEN (IF acao = "RIGHT" THEN 45 ELSE IF acao = "LEFT" THEN -25 ELSE 0)
             ELSE IF f = 4 THEN (IF acao = "UP" THEN 45 ELSE IF acao = "DOWN" THEN -25 ELSE 0)
             ELSE IF f = 5 THEN (IF acao = "DOWN" THEN 45 ELSE IF acao = "UP" THEN -25 ELSE 0)
             ELSE IF f = 7 THEN 18
             ELSE IF f = 8 THEN (IF acao = "RIGHT" THEN 40 ELSE IF acao = "LEFT" THEN -40 ELSE 0)
             ELSE IF f = 9 THEN (IF acao = "DOWN" THEN 40 ELSE IF acao = "UP" THEN -40 ELSE 0)
             ELSE 0
        ELSE IF gid = 1
        THEN IF acao = "RIGHT" /\ f = 3 THEN 45
             ELSE IF acao = "RIGHT" /\ f = 7 THEN 20
             ELSE IF acao = "RIGHT" /\ f = 0 THEN 5
             ELSE 0
        ELSE IF gid = 2
        THEN IF acao = "UP" /\ f = 3 THEN -5 ELSE 0
        ELSE 0

\* GAAgentBase._forward: scores = W x features, one score for each action
Forward(gid, feats) ==
    LET RECURSIVE Soma(_, _)
        Soma(ai, f) == IF f = Len(feats) THEN 0
                       ELSE GenomaPesos(gid, ai, f) * feats[f + 1] + Soma(ai, f + 1)
    IN  [i \in 1..Len(ListaAcoes) |-> Soma(i - 1, 0)]

\* max(range(self.n_actions), key=lambda i: scores[i]): the first index of a
\* maximal score
PrimeiroMaximo(scores) ==
    CHOOSE i \in DOMAIN scores :
        /\ \A j \in DOMAIN scores : scores[j] <= scores[i]
        /\ \A j \in 1..(i - 1) : scores[j] < scores[i]

\* GAEscolhas with the anti-loop branch taken in every mode
GAEscolhas_AntiLoopEmTeste(g, obs, tipo, modo) ==
    IF obs.none \/ modo = "learn" \/ tipo # "GAAgentForaging" THEN Acoes
    ELSE LET g1 == GARegistaPos(g, obs.pos)
         IN  IF Len(g1.recent_positions) >= 4 /\ g1.stuck_counter >= 2 THEN Acoes
             ELSE {ListaAcoes[PrimeiroMaximo(Forward(g.genome, ForagingToFeatures(obs)))]}

\* the actions GAAgentBase.age can return
GAEscolhas(g, obs, tipo, modo) ==
    IF obs.none \/ modo = "learn" \/ tipo # "GAAgentForaging" THEN Acoes
    ELSE {ListaAcoes[PrimeiroMaximo(Forward(g.genome, ForagingToFeatures(obs)))]}

Isqrt(n) == CHOOSE k \in 0..n : k * k <= n /\ (k + 1) * (k + 1) > n

SomaVisitas(hm) ==
    LET RECURSIVE Soma(_)
        Soma(S) == IF S = {} THEN 0
                   ELSE LET c == CHOOSE x \in S : TRUE IN hm[c] + Soma(S \ {c})
    IN  Soma(DOMAIN hm)

\* GAAgentForaging._calc_fitness, in hundredths; delivered is the environment's
\* total_delivered at the time of the call.  The efficiency bonus
\* (delivered / steps) ** 1.5 * 5000 is computed from the square root of
\* (delivered / steps) ** 3 taken to two decimal places.
ForagingCalcFitness(g, delivered, cur_steps) ==
    LET steps == Max2(cur_steps, 1)
        resource_score == delivered * 1000000
        efficiency_bonus ==
            IF delivered > 0
            THEN Isqrt((10000 * delivered * delivered * delivered)
                         \div (steps * steps * steps)) * 5000
            ELSE 0
        hm == g.episode_heatmap
        n == Cardinality(DOMAIN hm)
        exploration_bonus == n * 5000
        max_visits == IF n = 0 THEN 0 ELSE SetMax(Range(hm))
        soma == SomaVisitas(hm)
        stuck_penalty ==
            IF n > 0 /\ max_visits * n > soma * 5
            THEN ((max_visits * n - 2 * soma) * 10000) \div n
            ELSE 0
    IN  Max2(0, resource_score + efficiency_bonus + g.episode_reward
                  + exploration_bonus - stuck_penalty)

\* GAAgentFarol._calc_fitness, in hundredths.  With reward >= 100.0 it is
\* 10000 + (1 - steps / 200) ** 2 * 20000, which in hundredths is
\* 1000000 + (200 - steps) ** 2 * 50; otherwise max(0, reward - steps * 0.5)
\* less (max_visits - avg_visits) * 2.0 when max_visits > avg_visits * 4.
FarolCalcFitness(g, cur_steps) ==
    LET hm == g.episode_heatmap
        n == Cardinality(DOMAIN hm)
        max_visits == IF n = 0 THEN 0 ELSE SetMax(Range(hm))
        soma == SomaVisitas(hm)
        falha == Max2(0, g.episode_reward - 50 * cur_steps)
    IN  IF g.episode_reward >= 10000
        THEN 1000000 + (200 - cur_steps) * (200 - cur_steps) * 50
        ELSE IF n > 0 /\ max_visits * n > soma * 4
        THEN Max2(0, falha - ((max_visits * n - soma) * 200) \div n)
        ELSE falha

\* self._calc_fitness() of agent a
CalcFitness(a) ==
    IF cfg.agentes[a].tipo = "GAAgentForaging"
    THEN ForagingCalcFitness(ga[a], total_delivered, current_steps[a])
    ELSE FarolCalcFitness(ga[a], current_steps[a])

\* GAInserePopulacao with a sort that puts the new entry before the entries of
\* the same fitness
GAInserePopulacao_EmpateNaFrente(pop, fitness, genome) ==
    LET k == Cardinality({i \in 1..Len(pop) : pop[i][1] > fitness})
        novo == SubSeq(pop, 1, k) \o << <<fitness, genome>> >> \o SubSeq(pop, k + 1, Len(pop))
    IN  IF Len(novo) > PopulationSize THEN SubSeq(novo, 1, PopulationSize) ELSE novo

\* GAInserePopulacao without the cut to population_size
GAInserePopulacao_SemCorte(pop, fitness, genome) ==
    LET k == Cardinality({i \in 1..Len(pop) : pop[i][1] >= fitness})
    IN  SubSeq(pop, 1, k) \o << <<fitness, genome>> >> \o SubSeq(pop, k + 1, Len(pop))

\* self.population after the append, the stable descending sort and the cut to
\* population_size: the new entry goes after every entry at least as fit
GAInserePopulacao(pop, fitness, genome) ==
    LET k == Cardinality({i \in 1..Len(pop) : pop[i][1] >= fitness})
        novo == SubSeq(pop, 1, k) \o << <<fitness, genome>> >> \o SubSeq(pop, k + 1, Len(pop))
    IN  IF Len(novo) > PopulationSize THEN SubSeq(novo, 1, PopulationSize) ELSE novo

\* the genomes _mutate(base) can return: base itself (no weight drawn for
\* mutation) or a new vector
GAMutate(g, base) == {base, g.proximo_genoma}

\* the genomes _crossover(p1, p2) followed by _mutate can return
GACrossoverMutate(g, p1, p2) == {p1, p2, g.proximo_genoma}

\* GAEvolui taking every finished episode as the new best
GAEvolui_SempreMelhor(a, episodio) ==
    LET g == ga[a]
        fitness == CalcFitness(a)
        pop == GAInserePopulacao(g.population, fitness, g.genome)
        melhorou == TRUE
        g1 == [g EXCEPT !.population = pop, !.fitness = fitness,
                        !.best_fitness = IF melhorou THEN fitness ELSE @,
                        !.best_genome = IF melhorou THEN g.genome ELSE @]
        explora == IF episodio < 400
                   THEN GAMutate(g1, g1.best_genome) \cup
                        (IF Len(pop) >= 2
                         THEN GACrossoverMutate(g1, g1.best_genome, pop[2][2]) ELSE {})
                   ELSE {}
    IN  IF cfg.agentes[a].modo # "learn" THEN {g}
        ELSE { [g1 EXCEPT !.genome = ng,
                          !.proximo_genoma = IF ng = @ THEN @ + 1 ELSE @] :
               ng \in {g1.best_genome} \cup explora }

\* GAEvolui with the exploration draw open at every episode index
GAEvolui_ExploraSempre(a, episodio) ==
    LET g == ga[a]
        fitness == CalcFitness(a)
        pop == GAInserePopulacao(g.population, fitness, g.genome)
        melhorou == fitness > g.best_fitness
        g1 == [g EXCEPT !.population = pop, !.fitness = fitness,
                        !.best_fitness = IF melhorou THEN fitness ELSE @,
                        !.best_genome = IF melhorou THEN g.genome ELSE @]
        explora == GAMutate(g1, g1.best_genome) \cup
                   (IF Len(pop) >= 2
                    THEN GACrossoverMutate(g1, g1.best_genome, pop[2][2]) ELSE {})
    IN  IF cfg.agentes[a].modo # "learn" THEN {g}
        ELSE { [g1 EXCEPT !.genome = ng,
                          !.proximo_genoma = IF ng = @ THEN @ + 1 ELSE @] :
               ng \in {g1.best_genome} \cup explora }

\* the GA record after the evolution part of GAAgentBase.reset(episodio), run
\* when the finished episode had steps: the outcomes of the random draws
GAEvolui(a, episodio) ==
    LET g == ga[a]
        fitness == CalcFitness(a)
        pop == GAInserePopulacao(g.population, fitness, g.genome)
        melhorou == fitness > g.best_fitness
        g1 == [g EXCEPT !.population = pop, !.fitness = fitness,
                        !.best_fitness = IF melhorou THEN fitness ELSE @,
                        !.best_genome = IF melhorou THEN g.genome ELSE @]
        explora == IF episodio < 400
                   THEN GAMutate(g1, g1.best_genome) \cup
                        (IF Len(pop) >= 2
                         THEN GACrossoverMutate(g1, g1.best_genome, pop[2][2]) ELSE {})
                   ELSE {}
    IN  IF cfg.agentes[a].modo # "learn" THEN {g}
        ELSE { [g1 EXCEPT !.genome = ng,
                          !.proximo_genoma = IF ng = @ THEN @ + 1 ELSE @] :
               ng \in {g1.best_genome} \cup explora }

\* GAReset putting the closed episode into the elite in every mode
GAReset_EliteEmTeste(a, episodio) ==
    { [g EXCEPT !.episode_reward = 0, !.episode_heatmap = [c \in {} |-> 0],
                !.recent_positions = <<>>, !.stuck_counter = 0,
                !.population = IF current_steps[a] > 0
                               THEN GAInserePopulacao(@, CalcFitness(a), g.genome)
                               ELSE @] :
      g \in IF current_steps[a] > 0 THEN GAEvolui(a, episodio) ELSE {ga[a]} }

\* the GA record after GAAgentBase.reset(episodio)
GAReset(a, episodio) ==
    { [g EXCEPT !.episode_reward = 0, !.episode_heatmap = [c \in {} |-> 0],
                !.recent_positions = <<>>, !.stuck_counter = 0] :
      g \in IF current_steps[a] > 0 THEN GAEvolui(a, episodio) ELSE {ga[a]} }

\* ======================================================= environment-level runs
\* The environments driven through their own interface, in the order the engine
\* keeps (registar_agentes, then reset, then agir / atualizacao), with any
\* action string, any agent and any spawn map.

UmAgente == [tipo |-> "FixedAgent", modo |-> "test", policy |-> "random"]
NAgentes(n) == [i \in 1..n |-> UmAgente]

\* wall sets and beacons of the environment-level FarolEnv runs (the third wall
\* set covers the second beacon candidate's neighbour and the first beacon; the
\* last leaves two cells free)
EnvWallSets ==
    { {}, {<<1, 0>>, <<0, 1>>}, {<<1, 1>>, <<2, 1>>},
      Cells(GridSize, GridSize) \ {<<0, 0>>, <<1, 1>>} }
EnvFarois == {<<1, 1>>, <<0, 0>>}
\* wall sets of the FarolEnv runs with two agents: the first two columns free;
\* two cells free
EnvWallSetsDois ==
    { {c \in Cells(GridSize, GridSize) : c[1] >= 2},
      Cells(GridSize, GridSize) \ {<<0, 0>>, <<1, 1>>} }

\* spawn maps handed to reset: valid cells, a wall candidate, the beacon/nest
\* candidates and two cells outside the grid
SpawnCells == {<<0, 0>>, <<1, 0>>, <<1, 1>>, <<-1, 0>>, <<0, GridSize>>}
SpawnMaps ==
    UNION {[D -> SpawnCells] : D \in SUBSET {1}}
    \cup {[a \in {1, 2} |-> IF a = 1 THEN c ELSE d] : c \in SpawnCells, d \in {<<0, 0>>}}
    \cup {[a \in {2} |-> d] : d \in {<<0, 0>>}}

BaseConfig ==
    [problem |-> "Farol", width |-> GridSize, height |-> GridSize,
     farol |-> <<1, 1>>, ninho |-> <<0, 0>>, walls |-> {}, recursos |-> {},
     spawns |-> NoSpawns, agentes |-> NAgentes(1),
     env_max_steps |-> FarolMaxStepsDefault, max_steps |-> 0, episodes |-> 0,
     tracker |-> "MetricsTracker"]

ForagingConfig(nn, w, rs, n) ==
    [BaseConfig EXCEPT !.problem = "Foraging", !.ninho = nn, !.walls = w,
                       !.recursos = rs, !.agentes = NAgentes(n)]

\* the environment-level ForagingEnv configurations: a far resource; two agents
\* with a wall and two resources; a resource on the nest; the nest on a wall;
\* no resource; a resource next to a wall; a resource on a border cell where
\* an agent can be spawned
EnvForagingConfigs ==
    { ForagingConfig(<<0, 0>>, {}, {<<2, 2>>}, 1),
      ForagingConfig(<<0, 0>>, {<<1, 0>>}, {<<0, 1>>, <<2, 2>>}, 2),
      ForagingConfig(<<0, 0>>, {}, {<<0, 0>>, <<2, 0>>}, 1),
      ForagingConfig(<<1, 1>>, {<<1, 1>>, <<2, 1>>}, {<<2, 2>>}, 1),
      ForagingConfig(<<2, 2>>, {<<1, 0>>}, {}, 1),
      ForagingConfig(<<0, 0>>, {<<1, 0>>}, {<<1, 1>>}, 1),
      ForagingConfig(<<0, 0>>, {}, {<<1, 0>>}, 1) }

EnvConfigs ==
    { [BaseConfig EXCEPT !.farol = f, !.walls = w, !.agentes = NAgentes(1)] :
         f \in EnvFarois, w \in EnvWallSets }
    \cup { [BaseConfig EXCEPT !.farol = f, !.walls = w, !.agentes = NAgentes(2)] :
         f \in EnvFarois, w \in EnvWallSetsDois }
    \cup EnvForagingConfigs

\* the state after FarolEnv.__init__ / ForagingEnv.__init__ (total_delivered is
\* first set by ForagingEnv.reset; nothing reads it before)
EnvInitState(c) ==
    /\ cfg = c
    /\ ordem \in Permutacoes(c.recursos)
    /\ step = 0
    /\ agent_ids = <<>>
    /\ agent_pos = NoSpawns
    /\ done_agents = {}
    /\ resources = c.recursos
    /\ carrying = [a \in {} |-> 0]
    /\ total_delivered = 0
    /\ ret = NoRet
    /\ erro = ""

IdleEngine ==
    /\ pc = "idle" /\ idx = 0 /\ ep = 0 /\ passo_atual = 0
    /\ lista_acoes = <<>> /\ recompensas_passo = [a \in {} |-> 0]
    /\ recompensa_por_agente = [a \in {} |-> 0]
    /\ episodio_terminado = FALSE
    /\ metrics = [steps |-> <<>>, success_rate |-> <<>>, resources_delivered |-> <<>>,
                  reward |-> <<>>]
    /\ tracker_erro = ""

IdleAgents ==
    /\ ultima_observacao = <<>> /\ current_steps = <<>> /\ current_reward = <<>>
    /\ qtable = <<>> /\ estado_anterior = <<>> /\ acao_anterior = <<>>
    /\ epsilon = <<>> /\ alpha = <<>> /\ ga = <<>>
    /\ episode_rewards = <<>> /\ episode_lengths = <<>>

InitEnv ==
    /\ \E c \in EnvConfigs : EnvInitState(c)
    /\ IdleEngine
    /\ IdleAgents

\* registar_agentes(agentes)
EnvRegistar ==
    /\ erro = "" /\ agent_ids = <<>> /\ ret.op = "none"
    /\ agent_ids' = RegistarAgentes(Len(cfg.agentes))
    /\ UNCHANGED <<cfg, ordem, step, agent_pos, done_agents, resources, carrying,
                   total_delivered, ret, erro, engineVars, agentVars>>

\* FarolEnv.reset(agent_spawns)
FarolReset(spawns) ==
    /\ step' = 0
    /\ done_agents' = {}
    /\ \E o \in FarolResetOutcomes(spawns) :
          /\ agent_pos' = o.pos
          /\ erro' = IF o.ok THEN erro ELSE "RuntimeError"
    /\ ret' = RetReset(spawns)
    /\ UNCHANGED <<agent_ids, resources, carrying, total_delivered>>

\* ForagingEnv.reset(agent_spawns)
ForagingReset(spawns) ==
    /\ step' = 0
    /\ resources' = cfg.recursos
    /\ agent_pos' = ForagingResetPos(spawns)
    /\ carrying' = [a \in DOMAIN carrying \cup Range(agent_ids) |->
                       IF a \in Range(agent_ids) THEN 0 ELSE carrying[a]]
    /\ total_delivered' = 0
    /\ ret' = RetReset(spawns)
    /\ UNCHANGED <<agent_ids, done_agents, erro>>

\* agir(acao, agente) of FarolEnv, applied to the environment state
FarolAgirAct(acao, id, agSteps) ==
    LET o == FarolAgir(acao, id, agSteps)
    IN  /\ agent_pos' = o.pos
        /\ done_agents' = o.done
        /\ ret' = RetAgir(id, acao, o.r, o.t)
        /\ UNCHANGED <<step, agent_ids, resources, carrying, total_delivered, erro>>

\* agir(acao, agente) of ForagingEnv, applied to the environment state
ForagingAgirAct(acao, id) ==
    LET o == ForagingAgir(acao, id)
    IN  /\ agent_pos' = o.pos
        /\ resources' = o.res
        /\ carrying' = o.car
        /\ total_delivered' = o.del
        /\ ret' = RetAgir(id, acao, o.r, o.t)
        /\ UNCHANGED <<step, agent_ids, done_agents, erro>>

\* atualizacao() of both environments
Atualizacao == step' = step + 1

EnvFarolReset ==
    /\ erro = "" /\ cfg.problem = "Farol" /\ (agent_ids # <<>> \/ cfg.agentes = <<>>)
    /\ \E s \in SpawnMaps : FarolReset(s)
    /\ UNCHANGED <<cfg, ordem, engineVars, agentVars>>

EnvForagingReset ==
    /\ erro = "" /\ cfg.problem = "Foraging" /\ (agent_ids # <<>> \/ cfg.agentes = <<>>)
    /\ \E s \in SpawnMaps : ForagingReset(s)
    /\ UNCHANGED <<cfg, ordem, engineVars, agentVars>>

EnvFarolAgir ==
    /\ erro = "" /\ cfg.problem = "Farol" /\ ret.op # "none"
    /\ \E id \in Range(agent_ids), acao \in AnyAcoes, n \in 0..MaxAgentSteps :
          FarolAgirAct(acao, id, n)
    /\ UNCHANGED <<cfg, ordem, engineVars, agentVars>>

EnvForagingAgir ==
    /\ erro = "" /\ cfg.problem = "Foraging" /\ ret.op # "none"
    /\ \E id \in Range(agent_ids), acao \in AnyAcoes : ForagingAgirAct(acao, id)
    /\ UNCHANGED <<cfg, ordem, engineVars, agentVars>>

\* every sensor type observacaoPara of the configured environment looks for
SensoresTodos ==
    IF cfg.problem = "Farol" THEN {"visao", "farol"}
    ELSE {"visao", "ninho", "carregando", "recurso_mais_proximo"}

\* observacaoPara(agente) for a placed agent that has every sensor installed
EnvObservacao ==
    /\ erro = "" /\ ret.op # "none"
    /\ \E id \in Range(agent_ids) \cap DOMAIN agent_pos :
          \E o \in IF cfg.problem = "Farol" THEN {FarolObservacaoPara(id, SensoresTodos)}
                    ELSE ForagingObservacaoPara(id, SensoresTodos) :
             ret' = RetObservacao(id, o)
    /\ UNCHANGED <<cfg, ordem, envVars, erro, engineVars, agentVars>>

EnvAtualizacao ==
    /\ erro = "" /\ ret.op # "none" /\ step < MaxEnvStep
    /\ Atualizacao
    /\ UNCHANGED <<cfg, ordem, agent_ids, agent_pos, done_agents, resources, carrying,
                   total_delivered, ret, erro, engineVars, agentVars>>

NextEnv ==
    \/ EnvRegistar
    \/ EnvFarolReset
    \/ EnvForagingReset
    \/ EnvFarolAgir
    \/ EnvForagingAgir
    \/ EnvObservacao
    \/ EnvAtualizacao

SpecEnv == InitEnv /\ [][NextEnv]_vars

\* ===================================================== MotorDeSimulacao.executa
\* The engine runs one thread; pc is its position in executa and idx the
\* position of the for loop it is in.  Every configuration has an agent.
NAg == Len(cfg.agentes)

\* the agents as constructed by MotorDeSimulacao.cria
AgentsInit ==
    /\ ultima_observacao = [a \in 1..NAg |-> NoneObs]
    /\ current_steps = [a \in 1..NAg |-> 0]
    /\ current_reward = [a \in 1..NAg |-> 0]
    /\ qtable = [a \in 1..NAg |-> <<>>]
    /\ estado_anterior = [a \in 1..NAg |-> NoEstado]
    /\ acao_anterior = [a \in 1..NAg |-> ""]
    /\ epsilon = [a \in 1..NAg |-> IF IsQ(cfg.agentes[a].tipo) THEN EpsilonInicial ELSE 0]
    /\ alpha = [a \in 1..NAg |-> IF IsQ(cfg.agentes[a].tipo) THEN AlphaInicial ELSE 0]
    /\ episode_rewards = [a \in 1..NAg |-> <<>>]
    /\ episode_lengths = [a \in 1..NAg |-> <<>>]
    /\ ga = [a \in 1..NAg |-> GAInicial]

EngineInit ==
    /\ pc = "executa" /\ idx = 0 /\ ep = 0 /\ passo_atual = 0
    /\ lista_acoes = <<>> /\ recompensas_passo = [a \in {} |-> 0]
    /\ recompensa_por_agente = [a \in {} |-> 0]
    /\ episodio_terminado = FALSE
    /\ metrics = [steps |-> <<>>, success_rate |-> <<>>, resources_delivered |-> <<>>,
                  reward |-> <<>>]
    /\ tracker_erro = ""

\* the outcomes of ag.age() for agent a: the action returned, the agent's
\* Q-table, remembered state and action, GA record, and the exception raised
AgeOutcomes(a) ==
    LET ag == cfg.agentes[a]
        obs == ultima_observacao[a]
        base == [acao |-> "", qt |-> qtable[a], ea |-> estado_anterior[a],
                 aa |-> acao_anterior[a], g |-> ga[a], erro |-> ""]
    IN  IF IsGA(ag.tipo)
        THEN {[base EXCEPT !.acao = ac,
                           !.g = GAAposAge(ga[a], obs, ag.modo, Len(episode_rewards[a]))] :
                ac \in GAEscolhas(ga[a], obs, ag.tipo, ag.modo)}
        ELSE IF obs.none THEN {[base EXCEPT !.erro = "RuntimeError"]}
        ELSE IF IsQ(ag.tipo)
        THEN LET estado == ToState(ag.tipo, obs)
             IN  UNION { {[base EXCEPT !.acao = ac, !.qt = qt, !.ea = estado, !.aa = ac] :
                            ac \in QEscolhas(ag.modo, epsilon[a], qt[estado])} :
                         qt \in QTabelasAposAge(ag.tipo, qtable[a], estado) }
        ELSE {[base EXCEPT !.acao = ac] : ac \in PolicyActions(ag.policy, obs)}

\* registar_agentes, cria_tracker and the range of the episode loop
Executa ==
    /\ pc = "executa"
    /\ agent_ids' = RegistarAgentes(NAg)
    /\ pc' = IF cfg.episodes > 0 THEN "reset" ELSE "final"
    /\ UNCHANGED <<cfg, ordem, step, agent_pos, done_agents, resources, carrying, total_delivered,
                   ret, erro, idx, ep, passo_atual, lista_acoes, recompensas_passo,
                   recompensa_por_agente, episodio_terminado, metrics, tracker_erro, agentVars>>

\* self.ambiente.reset(self.agent_spawns) at the top of an episode
EngineReset ==
    /\ pc = "reset"
    /\ IF cfg.problem = "Farol" THEN FarolReset(cfg.spawns) ELSE ForagingReset(cfg.spawns)
    /\ pc' = IF erro' = "" THEN "ag_reset" ELSE "crashed"
    /\ idx' = 1
    /\ UNCHANGED <<cfg, ordem, ep, passo_atual, lista_acoes, recompensas_passo,
                   recompensa_por_agente, episodio_terminado, metrics, tracker_erro, agentVars>>

\* ag.reset(ep) for the agent at idx: AgenteBase.reset and QAgentBase.reset for
\* fixed and Q agents, GAAgentBase.reset (which does not call AgenteBase.reset)
\* for genetic agents
EngineAgReset ==
    /\ pc = "ag_reset"
    /\ LET a == idx
           tipo == cfg.agentes[a].tipo
           regista == ~IsGA(tipo) /\ (current_steps[a] > 0 \/ current_reward[a] # 0)
       IN  /\ episode_rewards' = IF regista
                                 THEN [episode_rewards EXCEPT ![a] = Append(@, current_reward[a])]
                                 ELSE episode_rewards
           /\ episode_lengths' = IF regista
                                 THEN [episode_lengths EXCEPT ![a] = Append(@, current_steps[a])]
                                 ELSE episode_lengths
           /\ current_reward' = [current_reward EXCEPT ![a] = 0]
           /\ current_steps' = [current_steps EXCEPT ![a] = 0]
           /\ ultima_observacao' = [ultima_observacao EXCEPT ![a] = NoneObs]
           /\ estado_anterior' = IF IsQ(tipo) THEN [estado_anterior EXCEPT ![a] = NoEstado]
                                 ELSE estado_anterior
           /\ acao_anterior' = IF IsQ(tipo) THEN [acao_anterior EXCEPT ![a] = ""]
                               ELSE acao_anterior
           /\ epsilon' = IF IsQ(tipo) THEN [epsilon EXCEPT ![a] = QEpsilonReset(a, ep)]
                         ELSE epsilon
           /\ alpha' = IF IsQ(tipo) THEN [alpha EXCEPT ![a] = QAlphaReset(a, ep)] ELSE alpha
           /\ \E g \in IF IsGA(tipo) THEN GAReset(a, ep) ELSE {ga[a]} :
                 ga' = [ga EXCEPT ![a] = g]
    /\ pc' = IF idx < NAg THEN "ag_reset" ELSE "inicio_ep"
    /\ idx' = IF idx < NAg THEN idx + 1 ELSE 1
    /\ UNCHANGED <<cfg, ordem, envVars, ret, erro, ep, passo_atual, lista_acoes, recompensas_passo,
                   recompensa_por_agente, episodio_terminado, metrics, tracker_erro, qtable>>

\* the locals of an episode and the first test of the step loop
EngineInicioEpisodio ==
    /\ pc = "inicio_ep"
    /\ passo_atual' = 0
    /\ recompensa_por_agente' = [a \in 1..NAg |-> 0]
    /\ episodio_terminado' = FALSE
    /\ pc' = IF 0 < cfg.max_steps THEN "observa" ELSE "fim_ep"
    /\ idx' = 1
    /\ UNCHANGED <<cfg, ordem, envVars, ret, erro, ep, lista_acoes, recompensas_passo, metrics, tracker_erro,
                   agentVars>>

\* step 1 of the loop body: ag.observacao(self.ambiente.observacaoPara(ag))
EngineObserva ==
    /\ pc = "observa"
    /\ \E o \in ObservacaoPara(idx) :
          ultima_observacao' = [ultima_observacao EXCEPT ![idx] = o]
    /\ pc' = IF idx < NAg THEN "observa" ELSE "age"
    /\ idx' = IF idx < NAg THEN idx + 1 ELSE 1
    /\ lista_acoes' = IF idx < NAg THEN lista_acoes ELSE <<>>
    /\ UNCHANGED <<cfg, ordem, envVars, ret, erro, ep, passo_atual, recompensas_passo,
                   recompensa_por_agente, episodio_terminado, metrics, tracker_erro, current_steps,
                   current_reward, qtable, estado_anterior, acao_anterior, epsilon, alpha,
                   episode_rewards, episode_lengths, ga>>

\* step 2: lista_acoes.append((ag, ag.age()))
EngineAge ==
    /\ pc = "age"
    /\ \E o \in AgeOutcomes(idx) :
          /\ erro' = o.erro
          /\ lista_acoes' = IF o.erro = "" THEN Append(lista_acoes, <<idx, o.acao>>)
                            ELSE lista_acoes
          /\ current_steps' = IF o.erro = "" THEN [current_steps EXCEPT ![idx] = @ + 1]
                              ELSE current_steps
          /\ qtable' = [qtable EXCEPT ![idx] = o.qt]
          /\ estado_anterior' = [estado_anterior EXCEPT ![idx] = o.ea]
          /\ acao_anterior' = [acao_anterior EXCEPT ![idx] = o.aa]
          /\ ga' = [ga EXCEPT ![idx] = o.g]
          /\ pc' = IF o.erro # "" THEN "crashed" ELSE IF idx < NAg THEN "age" ELSE "agir"
    /\ idx' = IF idx < NAg THEN idx + 1 ELSE 1
    /\ recompensas_passo' = IF idx < NAg THEN recompensas_passo ELSE [a \in {} |-> 0]
    /\ UNCHANGED <<cfg, ordem, envVars, ret, ep, passo_atual, recompensa_por_agente,
                   episodio_terminado, metrics, tracker_erro, ultima_observacao, current_reward,
                   epsilon, alpha, episode_rewards, episode_lengths>>

\* EngineAgir leaving the loop after the first entry of lista_acoes
EngineAgir_SoPrimeiro ==
    /\ pc = "agir"
    /\ LET a == lista_acoes[idx][1]
           acao == lista_acoes[idx][2]
       IN  /\ IF cfg.problem = "Farol" THEN FarolAgirAct(acao, a, current_steps[a])
              ELSE ForagingAgirAct(acao, a)
           /\ recompensas_passo' =
                 [x \in DOMAIN recompensas_passo \cup {a} |->
                     IF x = a THEN ret'.r ELSE recompensas_passo[x]]
           /\ recompensa_por_agente' = [recompensa_por_agente EXCEPT ![a] = @ + ret'.r]
    /\ pc' = "atualiza"
    /\ idx' = 1
    /\ UNCHANGED <<cfg, ordem, ep, passo_atual, lista_acoes, episodio_terminado, metrics, tracker_erro,
                   agentVars>>

\* step 3: recompensa, terminou = self.ambiente.agir(acao, ag) for the entry of
\* lista_acoes at idx; FarolEnv reads the agent's _current_steps
EngineAgir ==
    /\ pc = "agir"
    /\ LET a == lista_acoes[idx][1]
           acao == lista_acoes[idx][2]
       IN  /\ IF cfg.problem = "Farol" THEN FarolAgirAct(acao, a, current_steps[a])
              ELSE ForagingAgirAct(acao, a)
           /\ recompensas_passo' =
                 [x \in DOMAIN recompensas_passo \cup {a} |->
                     IF x = a THEN ret'.r ELSE recompensas_passo[x]]
           /\ recompensa_por_agente' = [recompensa_por_agente EXCEPT ![a] = @ + ret'.r]
    /\ pc' = IF idx < Len(lista_acoes) THEN "agir" ELSE "atualiza"
    /\ idx' = IF idx < Len(lista_acoes) THEN idx + 1 ELSE 1
    /\ UNCHANGED <<cfg, ordem, ep, passo_atual, lista_acoes, episodio_terminado, metrics, tracker_erro,
                   agentVars>>

\* step 4: self.ambiente.atualizacao()
EngineAtualiza ==
    /\ pc = "atualiza"
    /\ Atualizacao
    /\ pc' = "observa_nova"
    /\ idx' = 1
    /\ UNCHANGED <<cfg, ordem, agent_ids, agent_pos, done_agents, resources, carrying,
                   total_delivered, ret, erro, ep, passo_atual, lista_acoes,
                   recompensas_passo, recompensa_por_agente, episodio_terminado, metrics, tracker_erro,
                   agentVars>>

\* EngineObservaNova without the call of ag.observacao
EngineObservaNova_SemObservacao ==
    /\ pc = "observa_nova"
    /\ pc' = IF idx < NAg THEN "observa_nova" ELSE "avalia"
    /\ idx' = IF idx < NAg THEN idx + 1 ELSE 1
    /\ UNCHANGED <<cfg, ordem, envVars, ret, erro, ep, passo_atual, lista_acoes, recompensas_passo,
                   recompensa_por_agente, episodio_terminado, metrics, tracker_erro, agentVars>>

\* step 5: ag.observacao(self.ambiente.observacaoPara(ag)) on the new state
EngineObservaNova ==
    /\ pc = "observa_nova"
    /\ \E o \in ObservacaoPara(idx) :
          ultima_observacao' = [ultima_observacao EXCEPT ![idx] = o]
    /\ pc' = IF idx < NAg THEN "observa_nova" ELSE "avalia"
    /\ idx' = IF idx < NAg THEN idx + 1 ELSE 1
    /\ UNCHANGED <<cfg, ordem, envVars, ret, erro, ep, passo_atual, lista_acoes, recompensas_passo,
                   recompensa_por_agente, episodio_terminado, metrics, tracker_erro, current_steps,
                   current_reward, qtable, estado_anterior, acao_anterior, epsilon, alpha,
                   episode_rewards, episode_lengths, ga>>

\* step 6: ag.avaliacaoEstadoAtual(recompensas_passo[ag.id]) for the entry of
\* lista_acoes at idx
EngineAvalia ==
    /\ pc = "avalia"
    /\ LET a == lista_acoes[idx][1]
           recompensa == recompensas_passo[a]
           tipo == cfg.agentes[a].tipo
       IN  /\ current_reward' = [current_reward EXCEPT ![a] = @ + recompensa]
           /\ qtable' = IF IsQ(tipo) THEN [qtable EXCEPT ![a] = QAvaliacao(a, recompensa)]
                        ELSE qtable
           /\ ga' = IF IsGA(tipo) THEN [ga EXCEPT ![a].episode_reward = @ + recompensa]
                    ELSE ga
    /\ pc' = IF idx < Len(lista_acoes) THEN "avalia" ELSE "fim_passo"
    /\ idx' = IF idx < Len(lista_acoes) THEN idx + 1 ELSE 1
    /\ UNCHANGED <<cfg, ordem, envVars, ret, erro, ep, passo_atual, lista_acoes, recompensas_passo,
                   recompensa_por_agente, episodio_terminado, metrics, tracker_erro, ultima_observacao,
                   current_steps, estado_anterior, acao_anterior, epsilon, alpha,
                   episode_rewards, episode_lengths>>

\* EngineFimPasso leaving the step loop after every step
EngineFimPasso_SaiSempre ==
    /\ pc = "fim_passo"
    /\ episodio_terminado' = IsEpisodeDone
    /\ Atualizacao
    /\ passo_atual' = passo_atual + 1
    /\ pc' = "fim_ep"
    /\ idx' = 1
    /\ UNCHANGED <<cfg, ordem, agent_ids, agent_pos, done_agents, resources, carrying,
                   total_delivered, ret, erro, ep, lista_acoes, recompensas_passo,
                   recompensa_por_agente, metrics, tracker_erro, agentVars>>

\* step 7 and the rest of the loop body: is_episode_done(), the second
\* atualizacao(), passo_atual += 1, and the test of the while loop
EngineFimPasso ==
    /\ pc = "fim_passo"
    /\ episodio_terminado' = IsEpisodeDone
    /\ Atualizacao
    /\ passo_atual' = passo_atual + 1
    /\ pc' = IF passo_atual' < cfg.max_steps /\ ~episodio_terminado' THEN "observa"
             ELSE "fim_ep"
    /\ idx' = 1
    /\ UNCHANGED <<cfg, ordem, agent_ids, agent_pos, done_agents, resources, carrying,
                   total_delivered, ret, erro, ep, lista_acoes, recompensas_passo,
                   recompensa_por_agente, metrics, tracker_erro, agentVars>>

\* the metrics stored after the step loop, the tracker call inside
\* try/except Exception: pass (the MetricsTracker the engine creates raises
\* nothing; a tracker set on the engine beforehand can raise), and the next turn
\* of the episode loop
EngineFimEpisodio ==
    /\ pc = "fim_ep"
    /\ metrics' =
          [reward |-> Append(metrics.reward, recompensa_por_agente),
           steps |-> Append(metrics.steps, passo_atual),
           success_rate |->
              IF cfg.problem = "Farol"
              THEN Append(metrics.success_rate, <<Cardinality(done_agents), Max2(1, NAg)>>)
              ELSE metrics.success_rate,
           resources_delivered |->
              IF cfg.problem = "Foraging"
              THEN Append(metrics.resources_delivered, total_delivered)
              ELSE metrics.resources_delivered]
    /\ tracker_erro' = IF cfg.tracker = "MetricsTracker" THEN "" ELSE "Exception"
    /\ ep' = ep + 1
    /\ pc' = IF ep + 1 < cfg.episodes THEN "reset" ELSE "final"
    /\ UNCHANGED <<cfg, ordem, envVars, ret, erro, idx, passo_atual, lista_acoes,
                   recompensas_passo, recompensa_por_agente, episodio_terminado, agentVars>>

\* ----------------------------------------------------------- configurations
Agente(tipo, modo, policy) == [tipo |-> tipo, modo |-> modo, policy |-> policy]

\* FarolEnv, beacon in the middle, a learning Q agent and a fixed agent that
\* walks to the beacon
ConfigFarolQ ==
    [BaseConfig EXCEPT
        !.agentes = <<Agente("QAgentFarol", "learn", ""),
                      Agente("FixedAgent", "test", "farol_inteligente")>>,
        !.spawns = (1 :> <<0, 1>>) @@ (2 :> <<2, 0>>),
        !.max_steps = MaxSteps, !.episodes = MaxEpisodesQ]

\* ForagingEnv with a Q agent in test mode
ConfigForagingQTest ==
    [BaseConfig EXCEPT
        !.problem = "Foraging", !.recursos = {<<1, 0>>, <<2, 2>>},
        !.agentes = <<Agente("QAgentForaging", "test", "")>>,
        !.max_steps = MaxSteps, !.episodes = MaxEpisodes]

\* ForagingEnv with a learning genetic agent; a resource next to the nest
ConfigForagingGA ==
    [BaseConfig EXCEPT
        !.problem = "Foraging", !.recursos = {<<1, 0>>, <<2, 2>>},
        !.agentes = <<Agente("GAAgentForaging", "learn", "")>>,
        !.max_steps = MaxSteps, !.episodes = MaxEpisodes]

\* ForagingEnv with a learning genetic agent and episodes of one step: the
\* resets of episodes 1 and 2 close an episode each
ConfigForagingGAElite ==
    [ConfigForagingGA EXCEPT !.max_steps = 1, !.episodes = MaxEpisodesGA]

\* the foraging scenario: 3x3, no walls, nest (0,0), one resource at (2,2), one
\* agent spawned on the nest that walks with policy_foraging_inteligente
ConfigCenarioForaging ==
    [BaseConfig EXCEPT
        !.problem = "Foraging", !.width = 3, !.height = 3, !.recursos = {<<2, 2>>},
        !.agentes = <<Agente("FixedAgent", "test", "foraging_inteligente")>>,
        !.spawns = (1 :> <<0, 0>>),
        !.max_steps = ScenarioMaxSteps, !.episodes = 1]

\* the beacon scenario: 5x5, no walls, beacon (2,2), one FixedAgent with
\* policy_farol_inteligente and the beacon sensor, spawned on a cell reset draws
ConfigCenarioFarol ==
    [BaseConfig EXCEPT
        !.width = 5, !.height = 5, !.farol = <<2, 2>>,
        !.agentes = <<Agente("FixedAgent", "test", "farol_inteligente")>>,
        !.max_steps = ScenarioMaxSteps, !.episodes = 1]

\* the beacon scenario with the agent spawned at (0,0)
ConfigCenarioFarolCanto ==
    [ConfigCenarioFarol EXCEPT !.spawns = (1 :> <<0, 0>>)]

\* the beacon scenario run with self.tracker set to an object whose
\* regista_farol raises
ConfigTrackerFalha ==
    [ConfigCenarioFarolCanto EXCEPT !.tracker = "falha", !.episodes = MaxEpisodes]

\* FarolEnv built with the engine's step ceiling as its max_steps, beacon in
\* the middle, a learning genetic agent spawned next to the beacon
ConfigFarolGA ==
    [BaseConfig EXCEPT
        !.agentes = <<Agente("GAAgentFarol", "learn", "")>>,
        !.spawns = (1 :> <<0, 1>>),
        !.env_max_steps = MaxSteps,
        !.max_steps = MaxSteps, !.episodes = MaxEpisodes]

\* ForagingEnv without resources: is_episode_done() holds right after reset
ConfigForagingVazio ==
    [BaseConfig EXCEPT
        !.problem = "Foraging",
        !.agentes = <<Agente("FixedAgent", "test", "foraging_inteligente")>>,
        !.max_steps = MaxSteps, !.episodes = MaxEpisodes]

EngineConfigs ==
    {ConfigFarolQ, ConfigForagingQTest, ConfigForagingGA, ConfigCenarioForaging,
     ConfigCenarioFarol, ConfigCenarioFarolCanto, ConfigTrackerFalha,
     ConfigForagingGAElite, ConfigForagingVazio, ConfigFarolGA}

Init ==
    /\ \E c \in EngineConfigs : EnvInitState(c)
    /\ erro = ""
    /\ EngineInit
    /\ AgentsInit

Next ==
    \/ Executa
    \/ EngineReset
    \/ EngineAgReset
    \/ EngineInicioEpisodio
    \/ EngineObserva
    \/ EngineAge
    \/ EngineAgir
    \/ EngineAtualiza
    \/ EngineObservaNova
    \/ EngineAvalia
    \/ EngineFimPasso
    \/ EngineFimEpisodio

Spec == Init /\ [][Next]_vars

\* executa runs on its own thread and every call it makes returns or raises:
\* the engine always takes its next step
SpecJusta == Spec /\ WF_vars(Next)

\* ===================================================== agent-level runs
\* The agents driven through their own interface (observacao, age,
\* avaliacaoEstadoAtual, reset) by a caller other than the engine, in any
\* order: in particular age() may come before any observacao().  The
\* environment installed on the agent is a ForagingEnv after registar_agentes
\* and reset; the caller does not act on it.  cfg.max_steps caps the age()
\* calls of an episode and cfg.episodes the reset calls on a fixed or Q agent,
\* which ep counts; a genetic agent's state is bounded by population_size.

\* age() calls per episode in the agent-level runs
MaxPassosAg == 1
\* reset calls on a Q or fixed agent in the agent-level runs
MaxResetsAg == 3
\* resets with an exploring episode index while the elite is shorter than this
MaxExploraAg == 1
\* the rewards handed to avaliacaoEstadoAtual, in hundredths
RecompensasAg == {0}
\* the episode indices handed to reset: the first, and one past the accelerated
\* decay threshold of QAgentBase.reset or the last of the exploration window
\* of GAAgentBase.reset and the first past it
EpisodiosAg(tipo) == IF IsGA(tipo) THEN {0, 399, 400} ELSE {0, 101}
\* the epsilon and alpha values handed to QAgentBase.__init__, which stores
\* float(epsilon) and float(alpha) untested: the defaults, and one below the
\* floors of 0.01
EpsilonsAg == {EpsilonInicial, 50}
AlphasAg == {AlphaInicial, 50}

RetAg(op, id, acao, r) == [NoRet EXCEPT !.op = op, !.id = id, !.acao = acao, !.r = r]

ConfigAg(tipo, modo, policy, resets) ==
    [BaseConfig EXCEPT
        !.problem = "Foraging", !.recursos = {<<1, 0>>, <<2, 2>>},
        !.agentes = <<Agente(tipo, modo, policy)>>,
        !.max_steps = MaxPassosAg, !.episodes = resets]

\* one agent of each family; the Q agent that learns is a plain QAgentBase
AgConfigs ==
    { ConfigAg("FixedAgent", "test", "foraging_inteligente", MaxResetsAg),
      ConfigAg("QAgentBase", "learn", "", MaxResetsAg),
      ConfigAg("QAgentForaging", "test", "", MaxResetsAg),
      ConfigAg("GAAgentForaging", "test", "", MaxResetsAg),
      ConfigAg("GAAgentForaging", "learn", "", MaxResetsAg) }

InitAg ==
    /\ \E c \in AgConfigs : cfg = c
    /\ ordem \in Permutacoes(cfg.recursos)
    /\ step = 0
    /\ agent_ids = RegistarAgentes(NAg)
    /\ agent_pos = [a \in 1..NAg |-> cfg.ninho]
    /\ done_agents = {}
    /\ resources = cfg.recursos
    /\ carrying = [a \in 1..NAg |-> 0]
    /\ total_delivered = 0
    /\ ret = RetReset(NoSpawns)
    /\ erro = ""
    /\ IdleEngine
    /\ ultima_observacao = [a \in 1..NAg |-> NoneObs]
    /\ current_steps = [a \in 1..NAg |-> 0]
    /\ current_reward = [a \in 1..NAg |-> 0]
    /\ qtable = [a \in 1..NAg |-> <<>>]
    /\ estado_anterior = [a \in 1..NAg |-> NoEstado]
    /\ acao_anterior = [a \in 1..NAg |-> ""]
    /\ \E e \in EpsilonsAg :
          epsilon = [a \in 1..NAg |->
                        IF cfg.agentes[a].tipo = "QAgentBase" THEN e
                        ELSE IF IsQ(cfg.agentes[a].tipo) THEN EpsilonInicial ELSE 0]
    /\ \E al \in AlphasAg :
          alpha = [a \in 1..NAg |->
                      IF cfg.agentes[a].tipo = "QAgentBase" THEN al
                      ELSE IF IsQ(cfg.agentes[a].tipo) THEN AlphaInicial ELSE 0]
    /\ episode_rewards = [a \in 1..NAg |-> <<>>]
    /\ episode_lengths = [a \in 1..NAg |-> <<>>]
    /\ ga = [a \in 1..NAg |-> GAInicial]

\* ag.observacao(self.ambiente.observacaoPara(ag))
AgObservacao(a) ==
    /\ \E o \in ObservacaoPara(a) :
          ultima_observacao' = [ultima_observacao EXCEPT ![a] = o]
    /\ ret' = RetAg("observacao", a, "", 0)
    /\ erro' = ""
    /\ UNCHANGED <<cfg, ordem, envVars, engineVars, current_steps, current_reward, qtable,
                   estado_anterior, acao_anterior, epsilon, alpha, episode_rewards,
                   episode_lengths, ga>>

\* ag.age()
AgAge(a) ==
    /\ current_steps[a] < cfg.max_steps
    /\ \E o \in AgeOutcomes(a) :
          /\ erro' = o.erro
          /\ ret' = RetAg("age", a, o.acao, 0)
          /\ current_steps' = IF o.erro = "" THEN [current_steps EXCEPT ![a] = @ + 1]
                              ELSE current_steps
          /\ qtable' = [qtable EXCEPT ![a] = o.qt]
          /\ estado_anterior' = [estado_anterior EXCEPT ![a] = o.ea]
          /\ acao_anterior' = [acao_anterior EXCEPT ![a] = o.aa]
          /\ ga' = [ga EXCEPT ![a] = o.g]
    /\ UNCHANGED <<cfg, ordem, envVars, engineVars, ultima_observacao, current_reward, epsilon,
                   alpha, episode_rewards, episode_lengths>>

\* ag.avaliacaoEstadoAtual(recompensa), called for an action age() returned
AgAvalia(a, recompensa) ==
    /\ ret.op = "age" /\ ret.id = a /\ erro = ""
    /\ LET tipo == cfg.agentes[a].tipo
       IN  /\ current_reward' = [current_reward EXCEPT ![a] = @ + recompensa]
           /\ qtable' = IF IsQ(tipo) THEN [qtable EXCEPT ![a] = QAvaliacao(a, recompensa)]
                        ELSE qtable
           /\ ga' = IF IsGA(tipo) THEN [ga EXCEPT ![a].episode_reward = @ + recompensa]
                    ELSE ga
    /\ ret' = RetAg("avaliacaoEstadoAtual", a, "", recompensa)
    /\ erro' = ""
    /\ UNCHANGED <<cfg, ordem, envVars, engineVars, ultima_observacao, current_steps,
                   estado_anterior, acao_anterior, epsilon, alpha, episode_rewards,
                   episode_lengths>>

\* ag.reset(episodio)
AgReset(a, episodio) ==
    /\ IsGA(cfg.agentes[a].tipo) \/ ep < cfg.episodes
    /\ (IsGA(cfg.agentes[a].tipo) /\ episodio < 400)
          => Len(ga[a].population) < MaxExploraAg
    /\ LET tipo == cfg.agentes[a].tipo
           regista == ~IsGA(tipo) /\ (current_steps[a] > 0 \/ current_reward[a] # 0)
       IN  /\ episode_rewards' = IF regista
                                 THEN [episode_rewards EXCEPT ![a] = Append(@, current_reward[a])]
                                 ELSE episode_rewards
           /\ episode_lengths' = IF regista
                                 THEN [episode_lengths EXCEPT ![a] = Append(@, current_steps[a])]
                                 ELSE episode_lengths
           /\ current_reward' = [current_reward EXCEPT ![a] = 0]
           /\ current_steps' = [current_steps EXCEPT ![a] = 0]
           /\ ultima_observacao' = [ultima_observacao EXCEPT ![a] = NoneObs]
           /\ estado_anterior' = IF IsQ(tipo) THEN [estado_anterior EXCEPT ![a] = NoEstado]
                                 ELSE estado_anterior
           /\ acao_anterior' = IF IsQ(tipo) THEN [acao_anterior EXCEPT ![a] = ""]
                               ELSE acao_anterior
           /\ epsilon' = IF IsQ(tipo) THEN [epsilon EXCEPT ![a] = QEpsilonReset(a, episodio)]
                         ELSE epsilon
           /\ alpha' = IF IsQ(tipo) THEN [alpha EXCEPT ![a] = QAlphaReset(a, episodio)]
                       ELSE alpha
           /\ \E g \in IF IsGA(tipo) THEN GAReset(a, episodio) ELSE {ga[a]} :
                 ga' = [ga EXCEPT ![a] = g]
    /\ ep' = IF IsGA(cfg.agentes[a].tipo) THEN ep ELSE ep + 1
    /\ ret' = [RetAg("ag_reset", a, "", 0) EXCEPT !.episodio = episodio]
    /\ erro' = ""
    /\ UNCHANGED <<cfg, ordem, envVars, pc, idx, passo_atual, lista_acoes, recompensas_passo,
                   recompensa_por_agente, episodio_terminado, metrics, tracker_erro, qtable>>

\* the caller's four calls, on any agent with any argument
ChamaObservacao == \E a \in 1..NAg : AgObservacao(a)
ChamaAge == \E a \in 1..NAg : AgAge(a)
ChamaAvalia == \E a \in 1..NAg, r \in RecompensasAg : AgAvalia(a, r)
ChamaReset ==
    \E a \in 1..NAg : \E e \in EpisodiosAg(cfg.agentes[a].tipo) : AgReset(a, e)

NextAg ==
    \/ ChamaObservacao
    \/ ChamaAge
    \/ ChamaAvalia
    \/ ChamaReset

SpecAg == InitAg /\ [][NextAg]_vars

\* ========================================================== Q-agent runs
\* A Q agent driven by a caller that also acts on the environment and keeps
\* the engine's order within a step (observacao, age, agir with the action
\* age() returned, observacao, avaliacaoEstadoAtual with the reward of that
\* agir, which recompensas_passo holds meanwhile), but resets the agent between
\* two steps whenever it likes, and may call avaliacaoEstadoAtual right after
\* a reset, when the agent holds no state-action pair.  The environment is not
\* reset between episodes.

\* age() calls per episode in the Q-agent runs
MaxPassosQ == 1
\* reset calls in the Q-agent runs
MaxResetsQ == 1
\* the reward handed to avaliacaoEstadoAtual right after reset, in hundredths
RecompensasQ == {200}

ConfigQ(tipo, modo) ==
    [ConfigAg(tipo, modo, "", MaxResetsQ) EXCEPT !.max_steps = MaxPassosQ]

\* a Q agent that learns and one that is tested
QConfigs ==
    { ConfigQ("QAgentForaging", "learn"),
      ConfigQ("QAgentForaging", "test") }

\* as InitAg, with the epsilon of every agent drawn from the values a
\* constructor argument can give it
InitQ ==
    /\ \E c \in QConfigs : cfg = c
    /\ ordem \in Permutacoes(cfg.recursos)
    /\ step = 0
    /\ agent_ids = RegistarAgentes(NAg)
    /\ agent_pos = [a \in 1..NAg |-> cfg.ninho]
    /\ done_agents = {}
    /\ resources = cfg.recursos
    /\ carrying = [a \in 1..NAg |-> 0]
    /\ total_delivered = 0
    /\ ret = RetReset(NoSpawns)
    /\ erro = ""
    /\ IdleEngine
    /\ ultima_observacao = [a \in 1..NAg |-> NoneObs]
    /\ current_steps = [a \in 1..NAg |-> 0]
    /\ current_reward = [a \in 1..NAg |-> 0]
    /\ qtable = [a \in 1..NAg |-> <<>>]
    /\ estado_anterior = [a \in 1..NAg |-> NoEstado]
    /\ acao_anterior = [a \in 1..NAg |-> ""]
    /\ \E e \in EpsilonsAg : epsilon = [a \in 1..NAg |-> e]
    /\ alpha = [a \in 1..NAg |-> AlphaInicial]
    /\ episode_rewards = [a \in 1..NAg |-> <<>>]
    /\ episode_lengths = [a \in 1..NAg |-> <<>>]
    /\ ga = [a \in 1..NAg |-> GAInicial]

\* recompensa, terminou = self.ambiente.agir(acao, ag) with the action age()
\* just returned; the caller keeps the reward
QAgir(a) ==
    /\ ret.op = "age" /\ ret.id = a /\ erro = ""
    /\ ForagingAgirAct(ret.acao, agent_ids[a])
    /\ lista_acoes' = << <<a, ret.acao>> >>
    /\ recompensas_passo' = (a :> ForagingAgir(ret.acao, agent_ids[a]).r)
    /\ UNCHANGED <<cfg, ordem, pc, idx, ep, passo_atual, recompensa_por_agente,
                   episodio_terminado, metrics, tracker_erro, agentVars>>

\* ag.avaliacaoEstadoAtual(recompensa) on the agent's own state
AvaliaEfeito(a, recompensa) ==
    LET tipo == cfg.agentes[a].tipo
    IN  /\ current_reward' = [current_reward EXCEPT ![a] = @ + recompensa]
        /\ qtable' = IF IsQ(tipo) THEN [qtable EXCEPT ![a] = QAvaliacao(a, recompensa)]
                     ELSE qtable
        /\ ga' = IF IsGA(tipo) THEN [ga EXCEPT ![a].episode_reward = @ + recompensa]
                 ELSE ga
        /\ UNCHANGED <<ultima_observacao, current_steps, estado_anterior, acao_anterior,
                       epsilon, alpha, episode_rewards, episode_lengths>>

\* ag.avaliacaoEstadoAtual(recompensas_passo[ag.id]) for the reward the caller
\* holds
QAvaliaPasso(a) ==
    /\ ret.op = "observacao" /\ ret.id = a
    /\ lista_acoes # <<>> /\ lista_acoes[1][1] = a /\ erro = ""
    /\ AvaliaEfeito(a, recompensas_passo[a])
    /\ ret' = RetAg("avaliacaoEstadoAtual", a, "", recompensas_passo[a])
    /\ lista_acoes' = <<>>
    /\ recompensas_passo' = [x \in {} |-> 0]
    /\ UNCHANGED <<cfg, ordem, envVars, erro, pc, idx, ep, passo_atual,
                   recompensa_por_agente, episodio_terminado, metrics, tracker_erro>>

\* ag.avaliacaoEstadoAtual(recompensa) as the first call after ag.reset
QAvaliaAposReset(a, recompensa) ==
    /\ ret.op = "ag_reset" /\ ret.id = a /\ lista_acoes = <<>>
    /\ AvaliaEfeito(a, recompensa)
    /\ ret' = RetAg("avaliacaoEstadoAtual", a, "", recompensa)
    /\ UNCHANGED <<cfg, ordem, envVars, erro, engineVars>>

\* observacao at the start of a step and after agir
ChamaObservacaoQ ==
    /\ ret.op \in {"reset", "ag_reset", "avaliacaoEstadoAtual", "agir"}
    /\ ChamaObservacao
\* age on the observation of the start of a step
ChamaAgeQ ==
    /\ ret.op = "observacao" /\ lista_acoes = <<>>
    /\ ChamaAge
\* reset between two steps
ChamaResetQ ==
    /\ ret.op \in {"reset", "avaliacaoEstadoAtual"}
    /\ ChamaReset
ChamaAgir == \E a \in 1..NAg : QAgir(a)
ChamaAvaliaPasso == \E a \in 1..NAg : QAvaliaPasso(a)
ChamaAvaliaAposReset == \E a \in 1..NAg, r \in RecompensasQ : QAvaliaAposReset(a, r)

NextQ ==
    \/ ChamaObservacaoQ
    \/ ChamaAgeQ
    \/ ChamaAgir
    \/ ChamaAvaliaPasso
    \/ ChamaAvaliaAposReset
    \/ ChamaResetQ

SpecQ == InitQ /\ [][NextQ]_vars

\* ========================================================== fitness runs
\* One episode of a learning GAAgentFarol as its _calc_fitness sees it: the
\* age() calls of the episode, which count its steps, one reward handed to
\* avaliacaoEstadoAtual, and the reset that closes the episode and scores it.
\* The agent is given no observation, so its heatmaps stay empty.

\* the engine's max_steps in the fitness runs (its default is 500)
MaxStepsFitness == 201
\* the episode rewards of an agent that reached the beacon, in hundredths
RecompensasFit == {10000, 15000}

ConfigFitness ==
    [ConfigFarolGA EXCEPT !.env_max_steps = FarolMaxStepsDefault,
                          !.max_steps = MaxStepsFitness, !.episodes = 1]

\* the agent after construction, installed on a FarolEnv after
\* registar_agentes and reset
InitFit ==
    /\ cfg = ConfigFitness
    /\ ordem \in Permutacoes(cfg.recursos)
    /\ step = 0
    /\ agent_ids = RegistarAgentes(NAg)
    /\ agent_pos = [a \in 1..NAg |-> cfg.spawns[a]]
    /\ done_agents = {}
    /\ resources = cfg.recursos
    /\ carrying = [a \in {} |-> 0]
    /\ total_delivered = 0
    /\ ret = RetReset(cfg.spawns)
    /\ erro = ""
    /\ IdleEngine
    /\ ultima_observacao = [a \in 1..NAg |-> NoneObs]
    /\ current_steps = [a \in 1..NAg |-> 0]
    /\ current_reward = [a \in 1..NAg |-> 0]
    /\ qtable = [a \in 1..NAg |-> <<>>]
    /\ estado_anterior = [a \in 1..NAg |-> NoEstado]
    /\ acao_anterior = [a \in 1..NAg |-> ""]
    /\ epsilon = [a \in 1..NAg |-> 0]
    /\ alpha = [a \in 1..NAg |-> 0]
    /\ episode_rewards = [a \in 1..NAg |-> <<>>]
    /\ episode_lengths = [a \in 1..NAg |-> <<>>]
    /\ ga = [a \in 1..NAg |-> GAInicial]

\* age() in the episode that is to be scored
FitAge ==
    /\ \A a \in 1..NAg : ga[a].population = <<>>
    /\ ChamaAge
\* the episode's reward, handed over once
FitAvalia ==
    \E a \in 1..NAg, r \in RecompensasFit :
       /\ ga[a].episode_reward = 0
       /\ AgAvalia(a, r)
\* the reset that closes the episode
FitReset ==
    /\ \A a \in 1..NAg : ga[a].population = <<>>
    /\ ChamaReset

NextFit ==
    \/ FitAge
    \/ FitAvalia
    \/ FitReset

SpecFit == InitFit /\ [][NextFit]_vars

\* ============================================ claims on the environments (SpecEnv)
CelulaValida(c) == InGrid(c, cfg.width, cfg.height) /\ c \notin cfg.walls
TodosValidos == \A a \in DOMAIN agent_pos : CelulaValida(agent_pos[a])
TodosNoFarol ==
    \A a \in Range(agent_ids) : a \in DOMAIN agent_pos /\ agent_pos[a] = cfg.farol

\* C6: in FarolEnv an agent id is in the done set exactly when the agent's cell
\* is the beacon, so is_episode_done() is true exactly when every registered
\* agent stands on the beacon, whatever the step counter; once true it stays
\* true until the next reset.  In ForagingEnv is_episode_done() is true exactly
\* when the resource set is empty.
C6_DoneIffOnBeacon ==
    /\ [](cfg.problem = "Farol" =>
            /\ \A a \in DOMAIN agent_pos : (a \in done_agents <=> agent_pos[a] = cfg.farol)
            /\ done_agents \subseteq DOMAIN agent_pos
            /\ FarolIsEpisodeDone <=> TodosNoFarol)
    /\ [](cfg.problem = "Foraging" => (ForagingIsEpisodeDone <=> resources = {}))
    /\ [][(cfg.problem = "Farol" /\ agent_ids # <<>> /\ FarolIsEpisodeDone
              /\ ret'.op # "reset") => FarolIsEpisodeDone']_vars

\* C6 witness: both agents of a FarolEnv are done, and a further agir of one of
\* them has just returned (0.0, True)
C6_Witness ==
    /\ cfg.problem = "Farol" /\ Len(agent_ids) = 2 /\ FarolIsEpisodeDone
    /\ ret.op = "agir" /\ ret.t /\ ret.r = 0 /\ step > 0

\* C7: in both environments, if every agent is on an in-bounds non-wall cell,
\* then after agir(action, agent) with any action string every agent still is.
C7_PositionInvariant ==
    [][(ret'.op = "agir" /\ TodosValidos) => TodosValidos']_vars

\* C7 witness: an agir call moved an agent next to the grid border and a wall,
\* and every agent is on a valid cell
C7_Witness ==
    /\ ret.op = "agir" /\ ret.acao \in Acoes /\ TodosValidos
    /\ cfg.walls # {} /\ agent_pos[ret.id] = <<0, 0>> /\ cfg.problem = "Foraging"
    /\ \E w \in cfg.walls : Manhattan(w, agent_pos[ret.id]) = 1

\* C8: after FarolEnv.reset(spawn_map) every registered agent is on an in-bounds
\* cell that is neither the beacon nor a wall; an agent whose explicit spawn
\* satisfies the three conditions is exactly on it, and a spawn that violates
\* one of them is not used.
C8_FarolResetPlacement ==
    (cfg.problem = "Farol" /\ ret.op = "reset") =>
        /\ erro = "" => Range(agent_ids) \subseteq DOMAIN agent_pos
        /\ \A a \in DOMAIN agent_pos :
              LET c == agent_pos[a]
                  bom(s) == InGrid(s, cfg.width, cfg.width) /\ s # cfg.farol
                            /\ s \notin cfg.walls
              IN  /\ bom(c)
                  /\ a \in DOMAIN ret.spawns =>
                        IF bom(ret.spawns[a]) THEN c = ret.spawns[a]
                        ELSE c # ret.spawns[a]

\* C8 witness: a reset placed agent 1 on its valid explicit spawn and agent 2,
\* whose explicit spawn is the beacon, elsewhere
C8_Witness ==
    /\ cfg.problem = "Farol" /\ ret.op = "reset" /\ erro = ""
    /\ DOMAIN ret.spawns = {1, 2} /\ DOMAIN agent_pos = {1, 2}
    /\ agent_pos[1] = ret.spawns[1]
    /\ ret.spawns[2] = cfg.farol /\ agent_pos[2] # cfg.farol
    /\ cfg.walls # {}

\* C9 (as claimed): after ForagingEnv.reset(spawn_map) no agent is on a wall
\* cell or outside the grid.
C9_ForagingResetPlacement ==
    (cfg.problem = "Foraging" /\ ret.op = "reset") =>
        \A a \in Range(agent_ids) : CelulaValida(agent_pos[a])

\* C10 (as claimed): no agir call with a movement action of ForagingEnv ends
\* with a non-carrying agent standing on a cell that still holds a resource, or
\* with a carrying agent standing on the nest.
C10_AutoPickDrop ==
    (cfg.problem = "Foraging" /\ ret.op = "agir" /\ ret.acao \in Acoes) =>
        /\ ~(carrying[ret.id] = 0 /\ agent_pos[ret.id] \in resources)
        /\ ~(carrying[ret.id] = 1 /\ agent_pos[ret.id] = cfg.ninho)

\* ================================================= claims on the engine (Spec)
AgentesQTest ==
    {a \in 1..NAg : IsQ(cfg.agentes[a].tipo) /\ cfg.agentes[a].modo = "test"}

\* C1: the Q-table of a Q-learning agent in test mode never changes: no step of
\* a run (observacao, age, avaliacaoEstadoAtual, reset) adds a row to it or
\* modifies a stored value.
C1_TabelaQCongelada ==
    [][\A a \in AgentesQTest : qtable'[a] = qtable[a]]_vars

\* the part of the environment state that agir changes
EnvEstado == <<agent_pos, done_agents, resources, carrying, total_delivered>>

\* C2: when the engine calls avaliacaoEstadoAtual in a step, every action of
\* the step has been applied and every agent holds an observation of the
\* environment state after them, so the successor state of the Q-update is the
\* post-transition state.
C2_SucessorPosTransicao ==
    pc = "avalia" =>
        /\ DOMAIN recompensas_passo = 1..NAg
        /\ \A a \in 1..NAg : ultima_observacao[a] \in ObservacaoPara(a)

\* a learning Q agent is about to be evaluated with a successor state that
\* differs from the state its action was chosen in
C2_Witness ==
    /\ pc = "avalia"
    /\ cfg.agentes[idx].tipo = "QAgentFarol" /\ cfg.agentes[idx].modo = "learn"
    /\ estado_anterior[idx] # NoEstado
    /\ estado_anterior[idx] # ToState("QAgentFarol", ultima_observacao[idx])

\* C3: in a step, every agent holds an observation of the current state while
\* the agents choose; the actions are applied when all have chosen, in the
\* order of the agent list; the learning hooks run when all actions have been
\* applied; and the environment does not change while the agents observe,
\* choose or learn.
C3_FasesDoPasso ==
    /\ [](pc = "age" => \A a \in 1..NAg : ultima_observacao[a] \in ObservacaoPara(a))
    /\ [](pc = "agir" =>
            /\ Len(lista_acoes) = NAg
            /\ \A k \in 1..NAg : lista_acoes[k][1] = k
            /\ DOMAIN recompensas_passo = 1..(idx - 1))
    /\ [](pc \in {"atualiza", "observa_nova", "avalia"} =>
            DOMAIN recompensas_passo = 1..NAg)
    /\ [][(pc \in {"observa", "age", "observa_nova", "avalia"}) =>
            EnvEstado' = EnvEstado]_vars

\* between the two agir calls of a step with two agents: the first agent has
\* moved, the second has not acted yet
C3_Witness ==
    /\ pc = "agir" /\ NAg = 2 /\ idx = 2
    /\ agent_pos[1] # ultima_observacao[1].pos

\* C4: at the episode boundary after an episode a learning GAAgentForaging took
\* steps in, the fitness stored with the episode's genome is at least 10000
\* (1000000 hundredths) times the number of resources delivered in that episode.
C4_FitnessIncluiEntregas ==
    \A a \in 1..NAg :
        (/\ cfg.agentes[a].tipo = "GAAgentForaging" /\ cfg.agentes[a].modo = "learn"
         /\ pc = "inicio_ep" /\ ep >= 1 /\ metrics.steps[ep] > 0)
        => ga[a].fitness >= 1000000 * metrics.resources_delivered[ep]

\* C5: in the foraging scenario, the call of agir that brings the agent to
\* (2,2) sets its carrying flag and pays the pick-up bonus, and the episode in
\* which the agent picked the resource up is recorded with one delivery.
C5_CenarioEntrega ==
    cfg = ConfigCenarioForaging =>
        /\ (ret.op = "agir" /\ agent_pos[1] = <<2, 2>> /\ ret.acao \in {"RIGHT", "DOWN"})
              => (carrying[1] = 1 /\ ret.r >= 200)
        /\ (pc = "final" /\ resources = {}) => metrics.resources_delivered = <<1>>

\* ============================== further claims on the environments (SpecEnv)
\* C11: in FarolEnv an agir call for an agent that already reached the beacon
\* returns (0.0, True) whatever the action and changes nothing of the
\* environment state (an agir call is a step that sets ret and keeps the
\* step counter).
C11_AgenteTerminadoParado ==
    [][(/\ cfg.problem = "Farol" /\ ret'.op = "agir" /\ step' = step
        /\ ret'.id \in done_agents)
       => (ret'.r = 0 /\ ret'.t /\ envVars' = envVars)]_vars

\* C11 witness: of two agents one is done and the other is not, and an agir
\* call with a move action for the done one has just returned (0.0, True)
C11_Witness ==
    /\ cfg.problem = "Farol" /\ Len(agent_ids) = 2 /\ ~FarolIsEpisodeDone
    /\ ret.op = "agir" /\ ret.id \in done_agents /\ ret.acao \in Acoes
    /\ ret.r = 0 /\ ret.t /\ agent_pos[ret.id] = cfg.farol

\* C20: FarolEnv.reset raises exactly when the registered agents without a
\* valid explicit spawn outnumber the in-bounds cells that are neither the
\* beacon, nor a wall, nor taken by a used explicit spawn; otherwise it raises
\* nothing and places every agent.
C20_ResetSemCelulasLivres ==
    (cfg.problem = "Farol" /\ ret.op = "reset") =>
        LET valido(c) == InGrid(c, cfg.width, cfg.width) /\ c # cfg.farol
                            /\ c \notin cfg.walls
            comSpawn == {a \in Range(agent_ids) :
                            a \in DOMAIN ret.spawns /\ valido(ret.spawns[a])}
            usados == {ret.spawns[a] : a \in comSpawn}
            livres == {c \in Cells(cfg.width, cfg.width) : valido(c) /\ c \notin usados}
            semSpawn == Range(agent_ids) \ comSpawn
        IN  /\ erro = "RuntimeError" <=> Cardinality(semSpawn) > Cardinality(livres)
            /\ erro = "" => DOMAIN agent_pos = Range(agent_ids)

\* C20 witness: a reset of two agents raised after placing one of them
C20_Witness ==
    /\ cfg.problem = "Farol" /\ ret.op = "reset" /\ erro = "RuntimeError"
    /\ Len(agent_ids) = 2 /\ Cardinality(DOMAIN agent_pos) = 1

\* ====================================== further claims on the engine (Spec)
CenariosFarol == {ConfigCenarioFarol, ConfigCenarioFarolCanto}

\* steps begun in the episode plus the agent's Manhattan distance to the beacon
C12_Progresso ==
    passo_atual + FarolDist(agent_pos[1])
      + (IF pc \in {"atualiza", "observa_nova", "avalia", "fim_passo"} THEN 1 ELSE 0)

\* C12: in the wall-free beacon scenario with one FixedAgent following
\* policy_farol_inteligente, from the reset on the steps begun plus the
\* remaining Manhattan distance stay equal to the distance of the spawn cell
\* (each step closes the distance by one); the run ends on the beacon with that
\* many steps recorded, a last reward of at least 100 and success_rate 1/1;
\* from spawn (0,0) on the 5x5 grid with beacon (2,2) the episode takes 4 steps.
C12_CenarioFarol ==
    /\ [][(cfg \in CenariosFarol /\ pc \notin {"executa", "reset"})
            => C12_Progresso' = C12_Progresso]_vars
    /\ []((cfg \in CenariosFarol /\ pc = "final") =>
            /\ agent_pos[1] = cfg.farol
            /\ metrics.steps = <<passo_atual>>
            /\ ret.op = "agir" /\ ret.r >= 10000
            /\ metrics.success_rate = << <<1, 1>> >>)
    /\ []((cfg = ConfigCenarioFarolCanto /\ pc = "final") => metrics.steps = <<4>>)

\* C12 witness: the run from (0,0) ended with 4 recorded steps
C12_Witness ==
    /\ cfg = ConfigCenarioFarolCanto /\ pc = "final"
    /\ metrics.steps = <<4>> /\ agent_pos[1] = <<2, 2>>

\* C17: the environment's step counter is 0 right after reset and, at the end
\* of every engine step (when the loop test runs), equals the number of steps
\* the engine has executed in the episode.
C17_TempoUmaVezPorPasso ==
    /\ pc = "ag_reset" => step = 0
    /\ pc \in {"observa", "fim_ep"} => step = passo_atual

\* C19: an exception raised by the environment's reset or by an environment,
\* agent or tracker call during an episode propagates out of executa and ends
\* the run; the engine does not go on after it.
C19_ExcecoesPropagam ==
    /\ erro # "" => pc = "crashed"
    /\ tracker_erro # "" => pc = "crashed"

\* C15: for a genetic agent in learn mode driven by the engine, the softmax
\* temperature computed by age() is the one of the schedule at the number of
\* episodes completed so far (1.0 at episode 0, 0.992 at episode 1, ...).  The
\* state is the one right after age(); with fewer than 4 recent positions the
\* anti-loop branch was not taken, so the softmax draw was made.
C15_TemperaturaSegueEpisodios ==
    \A a \in 1..NAg :
        (/\ pc = "agir"
         /\ cfg.agentes[a].tipo = "GAAgentForaging" /\ cfg.agentes[a].modo = "learn"
         /\ Len(ga[a].recent_positions) < 4)
        => ga[a].tau = GATemperatura(ep)

AgentesGALearn ==
    {a \in 1..NAg : IsGA(cfg.agentes[a].tipo) /\ cfg.agentes[a].modo = "learn"}

\* C13: for a genetic agent in learn mode best_fitness never decreases, and the
\* reset that closes an episode whose fitness is not strictly greater than
\* best_fitness leaves best_fitness and best_genome as they were.
C13_ElitismoDoMelhor ==
    [][\A a \in AgentesGALearn :
          /\ ga'[a].best_fitness >= ga[a].best_fitness
          /\ (/\ pc = "ag_reset" /\ idx = a /\ current_steps[a] > 0
              /\ CalcFitness(a) <= ga[a].best_fitness)
             => (/\ ga'[a].best_fitness = ga[a].best_fitness
                 /\ ga'[a].best_genome = ga[a].best_genome)]_vars

\* a reset has closed an episode of lower fitness run with another genome than
\* the best one
C13_Witness ==
    /\ 1 \in AgentesGALearn
    /\ pc = "inicio_ep" /\ ep = 2
    /\ Len(ga[1].population) = 2
    /\ ga[1].fitness < ga[1].best_fitness
    /\ ga[1].population[1] = <<ga[1].best_fitness, ga[1].best_genome>>
    /\ ga[1].population[2][1] = ga[1].fitness
    /\ ga[1].population[2][2] # ga[1].best_genome

\* ============================================ claims on the agents (SpecAg)
PopulacaoOrdenada(pop) == \A i \in 1..(Len(pop) - 1) : pop[i][1] >= pop[i + 1][1]

\* C14: a genetic agent's elite population never holds more than
\* population_size entries and is ordered by fitness, highest first; the reset
\* that closes an episode with at least one step, in learn mode, puts the
\* (fitness, genome) pair of that episode into the elite at a place that keeps
\* the order, and then cuts the elite to population_size.
C14_EliteOrdenadaLimitada ==
    /\ [](\A a \in 1..NAg :
            IsGA(cfg.agentes[a].tipo) =>
               /\ Len(ga[a].population) <= PopulationSize
               /\ PopulacaoOrdenada(ga[a].population))
    /\ [][\A a \in AgentesGALearn :
            (ret'.op = "ag_reset" /\ ret'.id = a /\ current_steps[a] > 0) =>
               LET pop == ga[a].population
                   novo == <<CalcFitness(a), ga[a].genome>>
               IN  \E i \in 1..(Len(pop) + 1) :
                      LET q == SubSeq(pop, 1, i - 1) \o <<novo>> \o SubSeq(pop, i, Len(pop))
                      IN  /\ PopulacaoOrdenada(q)
                          /\ ga'[a].population = SubSeq(q, 1, Min2(Len(q), PopulationSize))]_vars

\* a reset has put an entry into a full elite and the cut has dropped it: the
\* fitness of the episode just closed is below the last entry kept
C14_Witness ==
    /\ 1 \in AgentesGALearn
    /\ ret.op = "ag_reset"
    /\ Len(ga[1].population) = PopulationSize
    /\ ga[1].fitness < ga[1].population[PopulationSize][1]

\* C16: for a Q agent in learn mode, whatever epsilon and alpha it was built
\* with and whatever episode index reset is given, epsilon and alpha after the
\* reset are at most what they were before it and at least epsilon_min and
\* alpha_min.
C16_DecaimentoMonotono ==
    [][\A a \in 1..NAg :
          (/\ ret'.op = "ag_reset" /\ ret'.id = a
           /\ IsQ(cfg.agentes[a].tipo) /\ cfg.agentes[a].modo = "learn")
          => (/\ epsilon'[a] <= epsilon[a]
              /\ alpha'[a] <= alpha[a]
              /\ epsilon'[a] >= QParams(cfg.agentes[a].tipo).epsilon_min
              /\ alpha'[a] >= QParams(cfg.agentes[a].tipo).alpha_min)]_vars

\* C18: age() called on an agent of any family that holds no observation
\* (none delivered since construction or since the last reset) raises an error.
C18_AgeSemObservacaoFalha ==
    [][\A a \in 1..NAg :
          (ret'.op = "age" /\ ret'.id = a /\ ultima_observacao[a].none)
          => erro' = "RuntimeError"]_vars

\* ============================================ claims on the environments, continued
\* C21: observacaoPara changes nothing in the environment, and a call that
\* follows another call for the same agent, with no agir or reset in between,
\* returns an equal observation.  A step that leaves the step counter alone
\* and ends with an observation as the last call is such a call (atualizacao
\* is the one operation that keeps the record of the last call).
C21_ObservacaoPura ==
    [][(ret'.op = "observacaoPara" /\ step' = step) =>
          /\ envVars' = envVars
          /\ (ret.op = "observacaoPara" /\ ret.id = ret'.id) => ret'.obs = ret.obs]_vars

\* an observation was taken on a ForagingEnv where two resources are equally
\* near the agent
C21_Witness ==
    /\ cfg.problem = "Foraging" /\ ret.op = "observacaoPara"
    /\ \E q, o \in resources :
          /\ q # o
          /\ Manhattan(agent_pos[ret.id], q) = Manhattan(agent_pos[ret.id], o)
          /\ \A x \in resources :
                Manhattan(agent_pos[ret.id], q) <= Manhattan(agent_pos[ret.id], x)

\* ============================================ claims on the engine, continued
\* C22: executa comes to an end (it returns, or an exception leaves it); when
\* it returns it has run exactly `episodes` episodes of at most max_steps steps
\* each; and an episode that ends below max_steps had at least one step, after
\* the last of which the environment reported the episode done.
C22_ExecutaTermina ==
    /\ <>(pc \in {"final", "crashed"})
    /\ [](pc = "final" =>
            /\ Len(metrics.steps) = cfg.episodes
            /\ \A e \in 1..Len(metrics.steps) : metrics.steps[e] <= cfg.max_steps)
    /\ []((pc = "fim_ep" /\ passo_atual < cfg.max_steps) =>
            /\ passo_atual >= 1
            /\ episodio_terminado
            /\ IsEpisodeDone)

\* a run of at least two episodes has returned, one of its episodes cut short
\* by the environment below max_steps
C22_Witness ==
    /\ pc = "final"
    /\ cfg.episodes >= 2
    /\ Len(metrics.steps) = cfg.episodes
    /\ \E e \in 1..Len(metrics.steps) : metrics.steps[e] < cfg.max_steps

\* ============================================== claims on the Q agents, continued
\* C23: in learn mode, avaliacaoEstadoAtual(r) on an agent that holds a pending
\* state-action pair (s, a) sets Q[s][a] to old + alpha * (r + gamma * max Q[s']
\* - old), s' being the state of the last observation (a state not yet in the
\* table counts with the zero row that is added for it), keeps every other
\* entry the table had and adds no row but that of s'; on an agent that holds
\* no pending pair it leaves the table as it is.
C23_AtualizacaoQ ==
    [][(ret'.op = "avaliacaoEstadoAtual" /\ cfg.agentes[ret'.id].modo = "learn") =>
          LET a == ret'.id
              s == estado_anterior[a]
              ac == acao_anterior[a]
              s2 == ToState(cfg.agentes[a].tipo, ultima_observacao[a])
              antigo == qtable[a]
              novo == qtable'[a]
              max_prox == IF s2 \in DOMAIN antigo THEN RowMax(antigo[s2]) ELSE 0
          IN  IF s = NoEstado \/ ac = "" THEN novo = antigo
              ELSE /\ novo[s][ac] = QNovo(antigo[s][ac], ret'.r, max_prox, alpha[a])
                   /\ DOMAIN antigo \subseteq DOMAIN novo
                   /\ DOMAIN novo \subseteq (DOMAIN antigo \cup {s2})
                   /\ \A e \in DOMAIN antigo, x \in Acoes :
                         (e # s \/ x # ac) => novo[e][x] = antigo[e][x]]_vars

\* a learning QAgentForaging has been updated for a step that took it to
\* another state: the entry of the pair it holds is none of the initial values
C23_Witness ==
    /\ ret.op = "avaliacaoEstadoAtual"
    /\ cfg.agentes[ret.id].tipo = "QAgentForaging"
    /\ cfg.agentes[ret.id].modo = "learn"
    /\ estado_anterior[ret.id] # NoEstado
    /\ ToState("QAgentForaging", ultima_observacao[ret.id]) # estado_anterior[ret.id]
    /\ qtable[ret.id][estado_anterior[ret.id]][acao_anterior[ret.id]] \notin {0, 50, 200}

\* C24: every row that enters the Q-table of a QAgentForaging holds the values
\* of _inicializar_estado for its state, whichever call adds it and in
\* whichever mode.
C24_LinhasInicializadas ==
    [][\A a \in 1..NAg :
          cfg.agentes[a].tipo = "QAgentForaging" =>
             \A e \in DOMAIN qtable'[a] \ DOMAIN qtable[a] :
                qtable'[a][e] = ForagingInicializarEstado(e)]_vars

\* C25: the action age() returns to a Q agent in test mode is one of the
\* actions of maximal Q-value in the row of the state it was asked about,
\* whatever the agent's epsilon.
C25_TesteEscolheMaximo ==
    [][(ret'.op = "age" /\ erro' = "" /\ IsQ(cfg.agentes[ret'.id].tipo)
          /\ cfg.agentes[ret'.id].modo = "test") =>
             /\ estado_anterior'[ret'.id] \in DOMAIN qtable'[ret'.id]
             /\ ret'.acao = acao_anterior'[ret'.id]
             /\ ret'.acao \in Melhores(qtable'[ret'.id][estado_anterior'[ret'.id]])]_vars

\* a Q agent in test mode with epsilon 0.9 has chosen in a row where not every
\* action is maximal
C25_Witness ==
    /\ ret.op = "age" /\ erro = ""
    /\ cfg.agentes[ret.id].tipo = "QAgentForaging"
    /\ cfg.agentes[ret.id].modo = "test"
    /\ epsilon[ret.id] = EpsilonInicial
    /\ Melhores(qtable[ret.id][estado_anterior[ret.id]]) # Acoes

\* C26: when the environment is already finished right after the resets that
\* open an episode, the engine goes straight to the end of the episode: it
\* records 0 steps and asks no agent to observe or act.
C26_EpisodioJaTerminado ==
    [][(pc = "inicio_ep" /\ IsEpisodeDone) => (pc' = "fim_ep" /\ passo_atual' = 0)]_vars

\* the cell next to p in the direction of a move, inside the grid or not
DestinoBruto(acao, p) ==
    IF acao = "UP" THEN <<p[1], p[2] - 1>>
    ELSE IF acao = "DOWN" THEN <<p[1], p[2] + 1>>
    ELSE IF acao = "LEFT" THEN <<p[1] - 1, p[2]>>
    ELSE <<p[1] + 1, p[2]>>

\* C27: in both environments, agir with a move whose destination is a wall or
\* lies outside the grid leaves the whole environment state as it was, returns
\* a reward that is not positive and does not terminate.  The agent has not
\* finished and moves from a cell of the grid that is not a wall.
\* (step' = step tells the agir step from a later atualizacao, which leaves
\* ret alone.)
C27_MovimentoBloqueado ==
    [][(/\ ret'.op = "agir" /\ step' = step
        /\ ret'.acao \in Acoes
        /\ ret'.id \in DOMAIN agent_pos
        /\ CelulaValida(agent_pos[ret'.id])
        /\ ret'.id \notin done_agents
        /\ LET d == DestinoBruto(ret'.acao, agent_pos[ret'.id])
           IN  d \in cfg.walls \/ ~InGrid(d, cfg.width, cfg.height)) =>
             /\ envVars' = envVars
             /\ ret'.r <= 0
             /\ ~ret'.t]_vars

\* ============================================ claims on the beacon reward
\* C28: the reward of the action that takes an agent onto the beacon is
\* 100 + 50 * max(0, 1 - n / env.max_steps), n being the number of actions the
\* agent has taken in the episode, the reaching one included and each counted
\* once (under the engine: one per step, passo_atual + 1); it lies in
\* [100, 150].
C28_RecompensaFarol ==
    [][(/\ pc = "agir" /\ cfg.problem = "Farol"
        /\ ret'.op = "agir"
        /\ ret'.id \in done_agents' \ done_agents) =>
          LET n == passo_atual + 1
          IN  /\ ret'.r = 10000 + Max2(0, (5000 * (cfg.env_max_steps - n))
                                            \div cfg.env_max_steps)
              /\ ret'.r >= 10000 /\ ret'.r <= 15000]_vars

\* ================================= claims on the fitness of GAAgentFarol
\* C29: the fitness GAAgentFarol._calc_fitness computes when reset closes an
\* episode is at least 10000 when the agent reached the beacon in that episode
\* and below 10000 when it did not (success_rate holds the episode's done
\* agents, which the environment's reset has cleared by then).
C29_FitnessSeparaSucesso ==
    (pc = "ag_reset" /\ NAg = 1 /\ cfg.agentes[idx].tipo = "GAAgentFarol"
       /\ current_steps[idx] > 0 /\ metrics.success_rate # <<>>) =>
          LET chegou == metrics.success_rate[Len(metrics.success_rate)][1] = 1
          IN  IF chegou THEN CalcFitness(idx) >= 1000000
              ELSE CalcFitness(idx) < 1000000

\* C30: the fitness reset computes for a GAAgentFarol whose episode reward is
\* at least 100 (the success branch) is not above the fitness of the same
\* episode with any smaller step count: the success-branch fitness never
\* increases with the number of steps, up to the engine's max_steps.
C30_FitnessNaoCresce ==
    [][(/\ ret'.op = "ag_reset"
        /\ cfg.agentes[ret'.id].tipo = "GAAgentFarol"
        /\ cfg.agentes[ret'.id].modo = "learn"
        /\ current_steps[ret'.id] > 0
        /\ ga[ret'.id].episode_reward >= 10000) =>
          \A m \in 0..current_steps[ret'.id] :
             FarolCalcFitness(ga[ret'.id], m) >= ga'[ret'.id].fitness]_vars

\* ======================================= claims on the resources of ForagingEnv
\* the agents that carry a resource
Carregadores == {a \in DOMAIN carrying : carrying[a] = 1}

\* C35: in ForagingEnv, after reset and after every agir, each carrying flag is
\* 0 or 1 and the resources still on the grid, the resources carried and the
\* resources delivered add up to the number of initial resources.
C35_ConservacaoRecursos ==
    (cfg.problem = "Foraging" /\ ret.op # "none") =>
        /\ \A a \in DOMAIN carrying : carrying[a] \in {0, 1}
        /\ Cardinality(resources) + Cardinality(Carregadores) + total_delivered
              = Cardinality(cfg.recursos)

\* two agents, one resource delivered and the other one carried
C35_Witness ==
    /\ cfg.problem = "Foraging" /\ ret.op = "agir"
    /\ Len(agent_ids) = 2
    /\ total_delivered = 1
    /\ Cardinality(Carregadores) = 1
    /\ resources = {}

\* C36: in an engine run on a ForagingEnv that starts with at least one
\* resource, total_delivered stays below the number of initial resources at
\* every point of every episode, and so does every recorded
\* resources_delivered: the episode ends with the step in which the last
\* resource is picked up.
C36_UltimoRecursoNaoEntregue ==
    (cfg.problem = "Foraging" /\ cfg.recursos # {}) =>
        /\ total_delivered < Cardinality(cfg.recursos)
        /\ \A e \in 1..Len(metrics.resources_delivered) :
              metrics.resources_delivered[e] < Cardinality(cfg.recursos)
        /\ (pc = "fim_ep" /\ resources = {}) => Carregadores # {}

\* the run has ended below max_steps with the grid empty and the agent still
\* carrying the last resource
C36_Witness ==
    /\ cfg.problem = "Foraging" /\ cfg.recursos # {}
    /\ pc = "final"
    /\ resources = {}
    /\ Carregadores # {}
    /\ metrics.steps[Len(metrics.steps)] < cfg.max_steps
    /\ metrics.resources_delivered[Len(metrics.resources_delivered)] = 0


\* ====================================================== genetic-agent runs
\* A GAAgentForaging driven as the Q agent of the Q-agent runs is, on a
\* corridor one cell high with the nest at its left end and a resource next to
\* it.  A tested agent is reset between two steps whenever the caller likes; a
\* learning agent runs one episode and is reset once.  The agent starts with
\* one of the genomes of GenomaPesos.

\* age() calls per episode in the genetic-agent runs
MaxPassosGA == 9
\* cells of the corridor
LarguraGA == 4
\* the genomes the agent is built with
GenomasGA == {0, 1, 2}

ConfigGA(modo) ==
    [ConfigAg("GAAgentForaging", modo, "", 1) EXCEPT
        !.width = LarguraGA, !.height = 1, !.recursos = {<<1, 0>>},
        !.max_steps = MaxPassosGA]

GAConfigs == {ConfigGA("test"), ConfigGA("learn")}

InitGA ==
    /\ \E c \in GAConfigs : cfg = c
    /\ ordem \in Permutacoes(cfg.recursos)
    /\ step = 0
    /\ agent_ids = RegistarAgentes(NAg)
    /\ agent_pos = [a \in 1..NAg |-> cfg.ninho]
    /\ done_agents = {}
    /\ resources = cfg.recursos
    /\ carrying = [a \in 1..NAg |-> 0]
    /\ total_delivered = 0
    /\ ret = RetReset(NoSpawns)
    /\ erro = ""
    /\ IdleEngine
    /\ ultima_observacao = [a \in 1..NAg |-> NoneObs]
    /\ current_steps = [a \in 1..NAg |-> 0]
    /\ current_reward = [a \in 1..NAg |-> 0]
    /\ qtable = [a \in 1..NAg |-> <<>>]
    /\ estado_anterior = [a \in 1..NAg |-> NoEstado]
    /\ acao_anterior = [a \in 1..NAg |-> ""]
    /\ epsilon = [a \in 1..NAg |-> 0]
    /\ alpha = [a \in 1..NAg |-> 0]
    /\ episode_rewards = [a \in 1..NAg |-> <<>>]
    /\ episode_lengths = [a \in 1..NAg |-> <<>>]
    /\ \E k \in GenomasGA :
          ga = [a \in 1..NAg |->
                   [GAInicial EXCEPT !.genome = k, !.best_genome = k,
                                     !.proximo_genoma = Cardinality(GenomasGA)]]

\* age on the observation of the start of a step, in an episode that no reset
\* has closed with an entry in the elite
ChamaAgeGA ==
    /\ ret.op = "observacao" /\ lista_acoes = <<>>
    /\ FitAge

NextGA ==
    \/ ChamaObservacaoQ
    \/ ChamaAgeGA
    \/ ChamaAgir
    \/ ChamaAvaliaPasso
    \/ ChamaResetQ

SpecGA == InitGA /\ [][NextGA]_vars


\* ================================= claims on the genetic agent's steps (SpecGA)
AgentesGATeste ==
    {a \in 1..NAg : cfg.agentes[a].tipo = "GAAgentForaging" /\ cfg.agentes[a].modo = "test"}

\* C31: in test mode, age() of a genetic agent that holds an observation
\* returns the first action of lista_acoes whose linear score for the features
\* of that observation is maximal, without raising, whatever the stuck counter
\* has grown to.
C31_TesteMaximoLinear ==
    [][\A a \in AgentesGATeste :
          (ret'.op = "age" /\ ret'.id = a /\ ~ultima_observacao[a].none) =>
             LET scores == Forward(ga[a].genome, ForagingToFeatures(ultima_observacao[a]))
             IN  /\ erro' = ""
                 /\ \E i \in DOMAIN ListaAcoes :
                       /\ ret'.acao = ListaAcoes[i]
                       /\ \A j \in DOMAIN ListaAcoes : scores[j] <= scores[i]
                       /\ \A j \in 1..(i - 1) : scores[j] < scores[i]]_vars

\* the tested agent has run to the right end of the corridor and age() has
\* returned RIGHT, the last action of the list, with the stuck counter at 8
C31_Witness ==
    /\ 1 \in AgentesGATeste
    /\ ret.op = "age"
    /\ ret.acao = "RIGHT"
    /\ agent_pos[1] = <<LarguraGA - 1, 0>>
    /\ ga[1].stuck_counter >= 8

\* C32: in learn mode, an age() call of a genetic agent that finds the stuck
\* counter at 2 or more after recording the observed position returns an
\* action of lista_acoes and leaves the counter at 0, so the counter is 0 or 1
\* after every age() call in learn mode; recent_positions never holds more
\* than 8 entries; reset empties recent_positions and zeroes the counter.
C32_AntiLoop ==
    /\ [][\A a \in AgentesGALearn :
            (ret'.op = "age" /\ ret'.id = a) =>
               /\ ga'[a].stuck_counter \in {0, 1}
               /\ (/\ ~ultima_observacao[a].none
                   /\ GARegistaPos(ga[a], ultima_observacao[a].pos).stuck_counter >= 2)
                  => (/\ ga'[a].stuck_counter = 0
                      /\ ret'.acao \in Range(ListaAcoes)
                      /\ erro' = "")]_vars
    /\ [](\A a \in 1..NAg : Len(ga[a].recent_positions) <= 8)
    /\ [][\A a \in 1..NAg :
            (ret'.op = "ag_reset" /\ ret'.id = a /\ IsGA(cfg.agentes[a].tipo)) =>
               /\ ga'[a].recent_positions = <<>>
               /\ ga'[a].stuck_counter = 0]_vars

\* a learning agent has 8 recent positions, the last 4 on at most 2 cells, and
\* age() has left the stuck counter at 0
C32_Witness ==
    /\ 1 \in AgentesGALearn
    /\ ret.op = "age"
    /\ Len(ga[1].recent_positions) = 8
    /\ Cardinality(Range(Ultimos(ga[1].recent_positions, 4))) <= 2
    /\ ga[1].stuck_counter = 0

\* C38: in test mode, reset(ep) of a genetic agent leaves genome, population,
\* best_genome and best_fitness as they were; it clears the episode's step and
\* reward counters, the last observation, the recent positions, the stuck
\* counter and the episode heatmap, and changes nothing else.
C38_ResetDeTeste ==
    [][\A a \in AgentesGATeste :
          (ret'.op = "ag_reset" /\ ret'.id = a) =>
             /\ ga'[a].genome = ga[a].genome
             /\ ga'[a].population = ga[a].population
             /\ ga'[a].best_genome = ga[a].best_genome
             /\ ga'[a].best_fitness = ga[a].best_fitness
             /\ ga'[a] = [ga[a] EXCEPT !.episode_reward = 0,
                                       !.episode_heatmap = [c \in {} |-> 0],
                                       !.recent_positions = <<>>,
                                       !.stuck_counter = 0]
             /\ current_steps'[a] = 0 /\ current_reward'[a] = 0
             /\ ultima_observacao'[a] = NoneObs
             /\ UNCHANGED <<episode_rewards, episode_lengths, envVars>>]_vars

\* a tested agent that has delivered the resource has been reset
C38_Witness ==
    /\ 1 \in AgentesGATeste
    /\ ret.op = "ag_reset"
    /\ total_delivered = 1
    /\ ga[1].population = <<>>
    /\ ga[1].recent_positions = <<>>
    /\ current_steps[1] = 0


\* ============================ claims on the genetic agent's elite (SpecAg)
\* C37: in learn mode, after every reset of a genetic agent that found the
\* population non-empty, the first entry of the population holds best_fitness
\* and a genome equal to best_genome; a reset that closes an episode whose
\* fitness equals best_fitness leaves the first entry and the best as they were.
C37_PrimeiroEMelhor ==
    [][\A a \in AgentesGALearn :
          (ret'.op = "ag_reset" /\ ret'.id = a /\ ga[a].population # <<>>) =>
             /\ ga'[a].population[1] = <<ga'[a].best_fitness, ga'[a].best_genome>>
             /\ (current_steps[a] > 0 /\ CalcFitness(a) = ga[a].best_fitness)
                => (/\ ga'[a].population[1] = ga[a].population[1]
                    /\ ga'[a].best_fitness = ga[a].best_fitness
                    /\ ga'[a].best_genome = ga[a].best_genome)]_vars

\* a reset has closed an episode run with another genome than the best one and
\* of the same fitness: its entry is the second of the population
C37_Witness ==
    /\ 1 \in AgentesGALearn
    /\ ret.op = "ag_reset"
    /\ Len(ga[1].population) >= 2
    /\ ga[1].population[1] = <<ga[1].best_fitness, ga[1].best_genome>>
    /\ ga[1].population[2][1] = ga[1].best_fitness
    /\ ga[1].population[2][2] # ga[1].best_genome
    /\ ga[1].fitness = ga[1].best_fitness


\* C33: in learn mode, a reset of a genetic agent with episode index 400 or more
\* that closes an episode of at least one step leaves genome equal to
\* best_genome; a reset that leaves a genome that is neither the one it found
\* nor best_genome has an episode index below 400.
C33_ExploracaoAte400 ==
    [][\A a \in AgentesGALearn :
          (ret'.op = "ag_reset" /\ ret'.id = a) =>
             /\ (ret'.episodio >= 400 /\ current_steps[a] > 0)
                => ga'[a].genome = ga'[a].best_genome
             /\ (ga'[a].genome # ga[a].genome /\ ga'[a].genome # ga'[a].best_genome)
                => (ret'.episodio < 400 /\ current_steps[a] > 0)]_vars

\* a reset with episode index 400 has closed an episode run with a genome that
\* was not the best one, and the agent holds the best genome again
C33_Witness ==
    /\ 1 \in AgentesGALearn
    /\ ret.op = "ag_reset" /\ ret.episodio = 400
    /\ Len(ga[1].population) = 2
    /\ ga[1].population[2][2] # ga[1].best_genome
    /\ ga[1].genome = ga[1].best_genome


\* ================================================== the engine of simuladorV2
\* MotorDeSimulacao.executa of src/simuladorV2 on its ForagingEnv with one
\* QAgentForaging built by cria().  The environment keeps resources as a dict
\* from cell to count, reset() scatters n_resources at random and puts every
\* agent on the nest, PICK and DROP are actions.  Rewards and Q-values are in
\* hundredths; alpha, gamma and epsilon in ten-thousandths.

\* side of the grid, n_resources, max_steps and episodes of the runs
V2Lado == 2
V2NumRecursos == 1
V2MaxSteps == 2
V2Episodes == 2
\* QAgentBase.__init__ defaults of simuladorV2
V2Alpha == 4000
V2Gamma == 9500
V2Epsilon == 2000
\* lista_acoes of QAgentForaging.cria
V2Acoes == {"UP", "DOWN", "LEFT", "RIGHT", "PICK", "DROP"}

ConfigV2(modo) ==
    [BaseConfig EXCEPT
        !.problem = "Foraging", !.width = V2Lado, !.height = V2Lado,
        !.env_max_steps = V2MaxSteps, !.max_steps = V2MaxSteps, !.episodes = V2Episodes,
        !.agentes = <<Agente("QAgentForaging", modo, "")>>]

V2Configs == {ConfigV2("learn"), ConfigV2("test")}

\* self.resources.get(c, 0)
V2Get(d, c) == IF c \in DOMAIN d THEN d[c] ELSE 0

\* the dicts ForagingEnv.reset can leave in self.resources: n resources, each
\* on a cell drawn at random
V2Espalha(n) ==
    LET RECURSIVE Esp(_)
        Esp(k) == IF k = 0 THEN {[c \in {} |-> 0]}
                  ELSE { IF c \in DOMAIN d THEN [d EXCEPT ![c] = @ + 1] ELSE d @@ (c :> 1) :
                         d \in Esp(k - 1), c \in Cells(cfg.width, cfg.height) }
    IN  Esp(n)

\* ForagingEnv.observacaoPara of simuladorV2: a new dict at every call
V2ObservacaoPara(a) ==
    LET p == agent_pos[a]
    IN  [NoneObs EXCEPT
            !.none = FALSE,
            !.pos = p,
            !.visao = [k \in VisKeys |->
                          IF k = "C" THEN V2Get(resources, p)
                          ELSE IF InGrid(Vizinho(p, k), cfg.width, cfg.height)
                          THEN V2Get(resources, Vizinho(p, k)) ELSE -1],
            !.carrying = carrying[a],
            !.nest = cfg.ninho]

\* QAgentForaging._to_state of simuladorV2
V2ToState(obs) ==
    IF obs.none THEN <<"NONE">>
    ELSE LET bit(k) == IF obs.visao[k] > 0 THEN 1 ELSE 0
         IN  <<"FORAGE", bit("L"), bit("R"), bit("U"), bit("D"), bit("C"), obs.carrying>>

\* the Q-table with a row of zeros for a state it does not hold yet
V2ComLinha(qt, estado) ==
    IF estado \in DOMAIN qt THEN qt ELSE qt @@ (estado :> [ac \in V2Acoes |-> 0])

\* QAgentBase.age of simuladorV2: the actions it can return
V2Escolhas(modo, eps, row) ==
    (IF modo = "learn" /\ eps > 0 THEN V2Acoes ELSE {})
    \cup (IF modo = "learn" /\ eps >= 10000 THEN {} ELSE Melhores(row))

\* ForagingEnv.agir of simuladorV2
V2Agir(acao, a) ==
    LET p == agent_pos[a]
        novo == IF acao = "UP" THEN <<p[1], Max2(0, p[2] - 1)>>
                ELSE IF acao = "DOWN" THEN <<p[1], Min2(cfg.height - 1, p[2] + 1)>>
                ELSE IF acao = "LEFT" THEN <<Max2(0, p[1] - 1), p[2]>>
                ELSE IF acao = "RIGHT" THEN <<Min2(cfg.width - 1, p[1] + 1), p[2]>>
                ELSE p
        pick == acao = "PICK" /\ V2Get(resources, p) > 0 /\ carrying[a] = 0
        drop == acao = "DROP" /\ p = cfg.ninho /\ carrying[a] = 1
    IN  [pos |-> [agent_pos EXCEPT ![a] = novo],
         res |-> IF ~pick THEN resources
                 ELSE IF resources[p] = 1 THEN [c \in DOMAIN resources \ {p} |-> resources[c]]
                 ELSE [resources EXCEPT ![p] = @ - 1],
         car |-> IF pick THEN [carrying EXCEPT ![a] = 1]
                 ELSE IF drop THEN [carrying EXCEPT ![a] = 0] ELSE carrying,
         del |-> IF drop THEN total_delivered + 1 ELSE total_delivered,
         r |-> IF acao \in {"UP", "DOWN", "LEFT", "RIGHT", "STAY"} THEN -1
               ELSE IF pick THEN 50 ELSE IF drop THEN 100 ELSE 0]

\* the Q-table after QAgentBase.avaliacaoEstadoAtual(recompensa) of simuladorV2
V2Avaliacao(a, recompensa) ==
    IF cfg.agentes[a].modo # "learn" THEN qtable[a]
    ELSE IF estado_anterior[a] = NoEstado \/ acao_anterior[a] = "" THEN qtable[a]
    ELSE LET estado_atual == V2ToState(ultima_observacao[a])
             qt == V2ComLinha(qtable[a], estado_atual)
             valor_antigo == qt[estado_anterior[a]][acao_anterior[a]]
             valor_maximo_proximo == RowMax(qt[estado_atual])
         IN  [qt EXCEPT ![estado_anterior[a]][acao_anterior[a]] =
                 valor_antigo
                 + (V2Alpha * (recompensa + (V2Gamma * valor_maximo_proximo) \div 10000
                               - valor_antigo)) \div 10000]

InitV2 ==
    /\ \E c \in V2Configs : cfg = c
    /\ ordem = <<>>
    /\ step = 0
    /\ agent_ids = <<>>
    /\ agent_pos = NoSpawns
    /\ done_agents = {}
    /\ resources = [c \in {} |-> 0]
    /\ carrying = [a \in {} |-> 0]
    /\ total_delivered = 0
    /\ ret = NoRet
    /\ erro = ""
    /\ pc = "v2_executa" /\ idx = 0 /\ ep = 0 /\ passo_atual = 0
    /\ lista_acoes = <<>> /\ recompensas_passo = [a \in {} |-> 0]
    /\ recompensa_por_agente = [a \in {} |-> 0]
    /\ episodio_terminado = FALSE
    /\ metrics = [steps |-> <<>>, success_rate |-> <<>>, resources_delivered |-> <<>>,
                  reward |-> <<>>]
    /\ tracker_erro = ""
    /\ ultima_observacao = [a \in 1..NAg |-> NoneObs]
    /\ current_steps = [a \in 1..NAg |-> 0]
    /\ current_reward = [a \in 1..NAg |-> 0]
    /\ qtable = [a \in 1..NAg |-> <<>>]
    /\ estado_anterior = [a \in 1..NAg |-> NoEstado]
    /\ acao_anterior = [a \in 1..NAg |-> ""]
    /\ epsilon = [a \in 1..NAg |-> V2Epsilon]
    /\ alpha = [a \in 1..NAg |-> V2Alpha]
    /\ episode_rewards = [a \in 1..NAg |-> <<>>]
    /\ episode_lengths = [a \in 1..NAg |-> <<>>]
    /\ ga = [a \in 1..NAg |-> GAInicial]

\* registar_agentes, cria_tracker and the range of the episode loop
V2Executa ==
    /\ pc = "v2_executa"
    /\ agent_ids' = RegistarAgentes(NAg)
    /\ pc' = IF cfg.episodes > 0 THEN "v2_reset" ELSE "final"
    /\ UNCHANGED <<cfg, ordem, step, agent_pos, done_agents, resources, carrying,
                   total_delivered, ret, erro, idx, ep, passo_atual, lista_acoes,
                   recompensas_passo, recompensa_por_agente, episodio_terminado, metrics,
                   tracker_erro, agentVars>>

\* estado_inicial = self.ambiente.reset()
V2EngineReset ==
    /\ pc = "v2_reset"
    /\ step' = 0
    /\ resources' \in V2Espalha(V2NumRecursos)
    /\ agent_pos' = [a \in 1..NAg |-> cfg.ninho]
    /\ carrying' = [a \in 1..NAg |-> 0]
    /\ total_delivered' = 0
    /\ ret' = RetReset(NoSpawns)
    /\ pc' = "v2_ag_reset"
    /\ idx' = 1
    /\ UNCHANGED <<cfg, ordem, agent_ids, done_agents, erro, ep, passo_atual, lista_acoes,
                   recompensas_passo, recompensa_por_agente, episodio_terminado, metrics,
                   tracker_erro, agentVars>>

\* ag.reset(ep) for the agent at idx (QAgentBase.reset decays epsilon in learn
\* mode and keeps everything else), then the locals of the episode
V2EngineAgReset ==
    /\ pc = "v2_ag_reset"
    /\ epsilon' = IF cfg.agentes[idx].modo = "learn"
                  THEN [epsilon EXCEPT ![idx] = Max2(500, (@ * 995) \div 1000)]
                  ELSE epsilon
    /\ IF idx < NAg
       THEN /\ idx' = idx + 1
            /\ UNCHANGED <<pc, passo_atual, recompensa_por_agente, episodio_terminado>>
       ELSE /\ idx' = 1
            /\ passo_atual' = 0
            /\ recompensa_por_agente' = [a \in 1..NAg |-> 0]
            /\ episodio_terminado' = FALSE
            /\ pc' = IF 0 < cfg.max_steps THEN "v2_observa" ELSE "v2_fim_ep"
    /\ UNCHANGED <<cfg, ordem, envVars, ret, erro, ep, lista_acoes, recompensas_passo,
                   metrics, tracker_erro, ultima_observacao, current_steps, current_reward,
                   qtable, estado_anterior, acao_anterior, alpha, episode_rewards,
                   episode_lengths, ga>>

\* step 1 of the loop body: ag.observacao(self.ambiente.observacaoPara(ag))
V2EngineObserva ==
    /\ pc = "v2_observa"
    /\ ultima_observacao' = [ultima_observacao EXCEPT ![idx] = V2ObservacaoPara(idx)]
    /\ pc' = IF idx < NAg THEN "v2_observa" ELSE "v2_age"
    /\ idx' = IF idx < NAg THEN idx + 1 ELSE 1
    /\ lista_acoes' = IF idx < NAg THEN lista_acoes ELSE <<>>
    /\ UNCHANGED <<cfg, ordem, envVars, ret, erro, ep, passo_atual, recompensas_passo,
                   recompensa_por_agente, episodio_terminado, metrics, tracker_erro,
                   current_steps, current_reward, qtable, estado_anterior, acao_anterior,
                   epsilon, alpha, episode_rewards, episode_lengths, ga>>

\* step 2: lista_acoes.append((ag, ag.age()))
V2EngineAge ==
    /\ pc = "v2_age"
    /\ LET estado == V2ToState(ultima_observacao[idx])
           qt == V2ComLinha(qtable[idx], estado)
       IN  \E ac \in V2Escolhas(cfg.agentes[idx].modo, epsilon[idx], qt[estado]) :
              /\ qtable' = [qtable EXCEPT ![idx] = qt]
              /\ estado_anterior' = [estado_anterior EXCEPT ![idx] = estado]
              /\ acao_anterior' = [acao_anterior EXCEPT ![idx] = ac]
              /\ lista_acoes' = Append(lista_acoes, <<idx, ac>>)
    /\ pc' = IF idx < NAg THEN "v2_age" ELSE "v2_agir"
    /\ idx' = IF idx < NAg THEN idx + 1 ELSE 1
    /\ UNCHANGED <<cfg, ordem, envVars, ret, erro, ep, passo_atual, recompensas_passo,
                   recompensa_por_agente, episodio_terminado, metrics, tracker_erro,
                   ultima_observacao, current_steps, current_reward, epsilon, alpha,
                   episode_rewards, episode_lengths, ga>>

\* step 3, first half: recompensa, terminou = self.ambiente.agir(acao, ag) for
\* the entry of lista_acoes at idx; recompensas_passo holds the local recompensa
V2EngineAgir ==
    /\ pc = "v2_agir"
    /\ LET a == lista_acoes[idx][1]
           acao == lista_acoes[idx][2]
           o == V2Agir(acao, a)
       IN  /\ agent_pos' = o.pos
           /\ resources' = o.res
           /\ carrying' = o.car
           /\ total_delivered' = o.del
           /\ ret' = RetAgir(a, acao, o.r, FALSE)
           /\ recompensas_passo' = (a :> o.r)
    /\ pc' = "v2_avalia"
    /\ UNCHANGED <<cfg, ordem, step, agent_ids, done_agents, erro, idx, ep, passo_atual,
                   lista_acoes, recompensa_por_agente, episodio_terminado, metrics,
                   tracker_erro, agentVars>>

\* step 3, second half: ag.avaliacaoEstadoAtual(recompensa) and the sum of the
\* agent's rewards, for the same entry
V2EngineAvalia ==
    /\ pc = "v2_avalia"
    /\ LET a == lista_acoes[idx][1]
       IN  /\ qtable' = [qtable EXCEPT ![a] = V2Avaliacao(a, recompensas_passo[a])]
           /\ recompensa_por_agente' =
                 [recompensa_por_agente EXCEPT ![a] = @ + recompensas_passo[a]]
    /\ pc' = IF idx < Len(lista_acoes) THEN "v2_agir" ELSE "v2_fim_passo"
    /\ idx' = IF idx < Len(lista_acoes) THEN idx + 1 ELSE 1
    /\ UNCHANGED <<cfg, ordem, envVars, ret, erro, ep, passo_atual, lista_acoes,
                   recompensas_passo, episodio_terminado, metrics, tracker_erro,
                   ultima_observacao, current_steps, current_reward, estado_anterior,
                   acao_anterior, epsilon, alpha, episode_rewards, episode_lengths, ga>>

\* steps 4 and 5: is_episode_done(), atualizacao(), passo_atual += 1, and the
\* test of the while loop
V2EngineFimPasso ==
    /\ pc = "v2_fim_passo"
    /\ episodio_terminado' = (step >= cfg.env_max_steps \/ DOMAIN resources = {})
    /\ step' = step + 1
    /\ passo_atual' = passo_atual + 1
    /\ pc' = IF passo_atual' < cfg.max_steps /\ ~episodio_terminado' THEN "v2_observa"
             ELSE "v2_fim_ep"
    /\ UNCHANGED <<cfg, ordem, agent_ids, agent_pos, done_agents, resources, carrying,
                   total_delivered, ret, erro, idx, ep, lista_acoes, recompensas_passo,
                   recompensa_por_agente, metrics, tracker_erro, agentVars>>

\* the metrics of the episode (ForagingEnv has no done_agents, so no
\* success_rate) and the next round of the episode loop
V2EngineFimEpisodio ==
    /\ pc = "v2_fim_ep"
    /\ metrics' = [metrics EXCEPT
                      !.reward = Append(@, recompensa_por_agente),
                      !.steps = Append(@, passo_atual),
                      !.resources_delivered = Append(@, total_delivered)]
    /\ ep' = ep + 1
    /\ pc' = IF ep + 1 < cfg.episodes THEN "v2_reset" ELSE "final"
    /\ UNCHANGED <<cfg, ordem, envVars, ret, erro, idx, passo_atual, lista_acoes,
                   recompensas_passo, recompensa_por_agente, episodio_terminado,
                   tracker_erro, agentVars>>

NextV2 ==
    \/ V2Executa
    \/ V2EngineReset
    \/ V2EngineAgReset
    \/ V2EngineObserva
    \/ V2EngineAge
    \/ V2EngineAgir
    \/ V2EngineAvalia
    \/ V2EngineFimPasso
    \/ V2EngineFimEpisodio

SpecV2 == InitV2 /\ [][NextV2]_vars

\* C34: in the engine of simuladorV2, when avaliacaoEstadoAtual of a Q agent is
\* called the agent's last observation is the observation of the environment
\* state its action has left, so that the successor state of the Q-update is
\* the post-transition state.
C34_SucessorPosTransicaoV2 ==
    pc = "v2_avalia" =>
        LET a == lista_acoes[idx][1]
        IN  ultima_observacao[a] = V2ObservacaoPara(a)

====
